---- MODULE Spec2Model ----
(***************************************************************************)
(* Model of the goma client's coordination core:                           *)
(*   - GoogleOAuth2AccessTokenRefreshTask (client/oauth2_token.cc)         *)
(*   - CompileTask's state machine (client/compile_task.h)                 *)
(*   - the content-addressed upload deduplicator (BlobStage)               *)
(* Time is in whole seconds, as time(nullptr) returns it.                  *)
(***************************************************************************)
EXTENDS Integers, Sequences, FiniteSets, TLC

VARIABLES
    \* ---- wall clock and environment of the token refresher
    now,                  \* time(nullptr)
    source,               \* which AuthRefreshConfig subclass: "oauth2" | "luci"
    can_refresh,          \* config_->CanRefresh()
    \* ---- GoogleOAuth2AccessTokenRefreshTask members
    state_,               \* NOT_STARTED | RUN
    refresh_deadline_,
    token_type_,
    access_token_,
    token_expires_at_,
    last_network_error_,
    pending_tasks_,       \* sequence of callback ids
    cancel_refresh_now_,  \* TRUE iff the pointer is non-null
    cancel_refresh_,      \* TRUE iff the pointer is non-null
    refresh_task_thread_id_,
    has_set_thread_id_,
    shutting_down_,
    status_,              \* HttpClient::Status of the refresh request
    resp_,                \* HttpResponse body of the refresh request
    \* ---- WorkerThreadManager / HttpClient as seen by the task
    rt_queue,             \* closures posted to the refresh thread, FIFO
    delayed_now,          \* the delayed RunRefreshNow closure
    delayed_retry,        \* the delayed RunRefresh (retry) closure
    inflight,             \* refresh HTTP requests handed to DoAsync, not yet Done
    done_ready,           \* HTTP requests completed, Done callback not yet run
    rt_pc,                \* where the refresh thread is inside Done
    l_http_ok,            \* Done's local http_ok
    l_expires_in,         \* Done's local expires_in
    l_next_update_in,     \* Done's local next_update_in
    cb_state,             \* per callback: "idle" | "pending" | "ran"
    crashed,              \* the process died (null dereference)
    \* ---- observers
    token_not_after,      \* issuer's not-after of the token in access_token_
    requests,             \* refresh HTTP requests started so far
    set_calls,            \* SetOAuth2Config calls so far
    \* ---- CompileTask and what it acts on
    fallback_policy,      \* "none" | "fast": is a subprocess raced against goma
    task,                 \* the members of the CompileTask
    op,                   \* work in flight whose callback the owner thread awaits
    staging,              \* per output: the file in the staging directory
    final,                \* per output: the file at the final output path
    committing,           \* the owner thread is inside CommitOutput
    reply,                \* what the client received: "none" | "goma" | "local"
    task_done,            \* Done() has run
    gomacc_closed,        \* the goma ipc of the client is closed
    retries,              \* retries of the Exec call so far
    rpc_after_close,      \* an RPC was issued for a cancelled task
    \* ---- BlobStage
    blob,                 \* hash -> "Unknown" | "Uploading" | "Present" | "Failed"
    disk,                 \* the hash of the input file as it is on disk
    caller,               \* per calling task: where its EnsurePresent is
    upload_queue,         \* callers waiting for an upload slot, FIFO
    upload_rpcs,          \* per hash: upload RPCs issued so far
    rounds,               \* per hash: transitions into Uploading so far
    file_changes,         \* times the file changed underfoot
    \* ---- CompilerInfoCache
    cinfo_cache,          \* key -> entry: "Absent" | "Probing" | "Cached", info
    cinfo_probes,         \* per key: probe_fn invocations so far
    getter,               \* per calling task: where its GetOrProbe is
    invalidations,        \* per key: Invalidate calls so far
    \* ---- GomaIPC
    ipc,                  \* one call: its Status, channel and ReadResponse locals
    \* ---- GetRealExecutablePath (util.cc)
    gre,                  \* one PATH search: its arguments, locals and results
    \* ---- CompileTask's reference count
    ref,                  \* refcnt_, who holds a reference, what has settled
    \* ---- the token members, statement by statement
    mem,                  \* token_type_, access_token_, token_expires_at_,
                          \* account_email_, mu_ and the threads that write them
    \* ---- the command classification predicates
    cls,                  \* one command and what the predicates say of it
    \* ---- ElfDepParser::ParseReadElf
    elf,                  \* one listing, the return value, libs and rpaths
    \* ---- GoogleOAuth2AccessTokenRefreshTask::Wait
    wait,                 \* the thread inside Wait(), if any
    \* ---- file_dir.cc
    del,                  \* RecursivelyDelete(name): the tree before and after
    ens,                  \* EnsureDirectory(dirname) called by several at once
    \* ---- the directives of a C/C++ source
    dp,                   \* CppDirectiveParser::Parse: content, *result, return
    df                    \* DirectiveFilter::MakeFilteredContent, pass by pass

tokenVars == <<now, source, can_refresh, state_, refresh_deadline_, token_type_,
               access_token_, token_expires_at_, last_network_error_,
               pending_tasks_, cancel_refresh_now_, cancel_refresh_,
               refresh_task_thread_id_, has_set_thread_id_, shutting_down_,
               status_, resp_, rt_queue, delayed_now, delayed_retry, inflight,
               done_ready, rt_pc, l_http_ok, l_expires_in, l_next_update_in,
               cb_state, crashed, token_not_after, requests, set_calls>>

taskVars == <<fallback_policy, task, op, staging, final, committing, reply,
              task_done, gomacc_closed, retries, rpc_after_close>>

blobVars == <<blob, disk, caller, upload_queue, upload_rpcs, rounds, file_changes>>

cacheVars == <<cinfo_cache, cinfo_probes, getter, invalidations>>

ipcVars == <<ipc>>

pathVars == <<gre>>

refVars == <<ref>>

memVars == <<mem>>

classVars == <<cls>>

elfVars == <<elf>>

\* the functions of text checked on their own
pureVars == <<classVars, elfVars>>

waitVars == <<wait>>

deleteVars == <<del>>

ensureVars == <<ens>>

\* file_dir.cc
dirVars == <<deleteVars, ensureVars>>

parseVars == <<dp>>

filterVars == <<df>>

\* cpp_directive_parser.cc and directive_filter.cc
cppVars == <<parseVars, filterVars>>

\* the components that follow GomaIPC in this module
laterVars == <<pathVars, refVars, memVars, pureVars, waitVars, dirVars, cppVars>>

restVars == <<cacheVars, ipcVars, laterVars>>

\* everything but the PATH search
notPathVars == <<tokenVars, taskVars, blobVars, cacheVars, ipcVars, refVars,
                 memVars, pureVars, waitVars, dirVars, cppVars>>

\* everything but the reference count
notRefVars == <<tokenVars, taskVars, blobVars, cacheVars, ipcVars, pathVars,
                memVars, pureVars, waitVars, dirVars, cppVars>>

\* everything but the token members
notMemVars == <<tokenVars, taskVars, blobVars, cacheVars, ipcVars, pathVars,
                refVars, pureVars, waitVars, dirVars, cppVars>>

\* everything but the command classification
notClassVars == <<tokenVars, taskVars, blobVars, cacheVars, ipcVars, pathVars,
                  refVars, memVars, elfVars, waitVars, dirVars, cppVars>>

\* everything but RecursivelyDelete
notDeleteVars == <<tokenVars, taskVars, blobVars, cacheVars, ipcVars, pathVars,
                   refVars, memVars, pureVars, waitVars, ensureVars, cppVars>>

\* everything but EnsureDirectory
notEnsureVars == <<tokenVars, taskVars, blobVars, cacheVars, ipcVars, pathVars,
                   refVars, memVars, pureVars, waitVars, deleteVars, cppVars>>

\* everything but CppDirectiveParser::Parse
notParseVars == <<tokenVars, taskVars, blobVars, cacheVars, ipcVars, pathVars,
                  refVars, memVars, pureVars, waitVars, dirVars, filterVars>>

\* everything but DirectiveFilter
notFilterVars == <<tokenVars, taskVars, blobVars, cacheVars, ipcVars, pathVars,
                   refVars, memVars, pureVars, waitVars, dirVars, parseVars>>

\* everything but the ELF listing parser
notElfVars == <<tokenVars, taskVars, blobVars, cacheVars, ipcVars, pathVars,
                refVars, memVars, classVars, waitVars, dirVars, cppVars>>

vars == <<tokenVars, taskVars, blobVars, restVars>>

-----------------------------------------------------------------------------
(* Program constants *)
kRefreshTimeoutSec == 10
kErrorRefreshPendingSec == 60
kOAuthExpireTimeMarginInSec == 60

(* Bounds of the model *)
MaxTime == 121
MaxCallbacks == 2
MaxRequests == 2
MaxSetConfig == 1
MaxSeconds == 8
NumOutputs == 2
NumCallers == 3
MaxFileChanges == 1
NumGetters == 3
MaxProbesPerKey == 2
MaxInvalidate == 1
MaxProbes == 3

\* the per-call retry budget of the Exec call
RetryBudget == 1
\* the per-daemon cap on active upload RPCs
max_concurrent_uploads == 1

Threads == {"t1", "t2"}
Callbacks == 1..MaxCallbacks
\* how far the clock moves in one step (seconds)
TickSec == 30
TickSteps == {TickSec}
\* token lifetimes the issuer hands out (seconds)
Lifetimes == {30, 63, 120, 150}
NoThread == "none"
NoClosure == [pending |-> FALSE, due |-> 0]
NoBody == [ok |-> FALSE, lifetime |-> 0, not_after |-> 0]

-----------------------------------------------------------------------------
(* GetAuthorization: "<token_type> <token>" or empty *)
GetAuthorization ==
    IF now < token_expires_at_ /\ token_type_ # "" /\ access_token_ # ""
    THEN <<token_type_, access_token_>>
    ELSE <<>>

(* ShouldRefresh and RunAfterRefresh without the error window. *)
InCooldown_Never == FALSE

(* The window after a refresh gave up in which no refresh is started. *)
InCooldown ==
    last_network_error_ > 0 /\ now < last_network_error_ + kErrorRefreshPendingSec

(* ShouldRefresh without its CanRefresh() test. *)
ShouldRefresh_IgnoreCanRefresh ==
    IF InCooldown THEN FALSE
    ELSE now >= token_expires_at_ \/ token_type_ = "" \/ access_token_ = ""

(* bool ShouldRefresh() const *)
ShouldRefresh ==
    IF ~can_refresh THEN FALSE
    ELSE IF InCooldown THEN FALSE
    ELSE now >= token_expires_at_ \/ token_type_ = "" \/ access_token_ = ""

\* mu_ is held by the refresh thread across the two time reads of a parse
MuFree == rt_pc # "done_parse2"
\* thread t is inside Wait(), blocked in cond_.Wait()
InWait(t) == wait.st = "waiting" /\ wait.thread = t
\* thread t can run user code: it is not the refresh thread, or that one is idle
CanRun(t) ==
    ~crashed /\ MuFree /\ (t = refresh_task_thread_id_ => rt_pc = "idle") /\ ~InWait(t)
\* the refresh thread can take its next closure
RtIdle == ~crashed /\ rt_pc = "idle" /\ ~InWait(refresh_task_thread_id_)

-----------------------------------------------------------------------------
(* The state after New(): the task is constructed, nothing has run. *)
InitToken ==
    /\ now = 1
    /\ source \in {"oauth2", "luci"}
    /\ can_refresh = TRUE
    /\ state_ = "NOT_STARTED"
    /\ refresh_deadline_ = 0
    /\ token_type_ = ""
    /\ access_token_ = ""
    /\ token_expires_at_ = 0
    /\ last_network_error_ = 0
    /\ pending_tasks_ = <<>>
    /\ cancel_refresh_now_ = FALSE
    /\ cancel_refresh_ = FALSE
    /\ refresh_task_thread_id_ = NoThread
    /\ has_set_thread_id_ = FALSE
    /\ shutting_down_ = FALSE
    /\ status_ = "none"
    /\ resp_ = NoBody
    /\ rt_queue = <<>>
    /\ delayed_now = NoClosure
    /\ delayed_retry = NoClosure
    /\ inflight = 0
    /\ done_ready = 0
    /\ rt_pc = "idle"
    /\ l_http_ok = TRUE
    /\ l_expires_in = 0
    /\ l_next_update_in = 0
    /\ cb_state = [c \in Callbacks |-> "idle"]
    /\ crashed = FALSE
    /\ token_not_after = 0
    /\ requests = 0
    /\ set_calls = 0

(* The clock advances. *)
Tick ==
    \E d \in TickSteps :
        /\ ~crashed
        /\ now + d <= MaxTime
        /\ now' = now + d
        /\ UNCHANGED <<source, can_refresh, state_, refresh_deadline_, token_type_,
               access_token_, token_expires_at_, last_network_error_,
               pending_tasks_, cancel_refresh_now_, cancel_refresh_,
               refresh_task_thread_id_, has_set_thread_id_, shutting_down_,
               status_, resp_, rt_queue, delayed_now, delayed_retry, inflight,
               done_ready, rt_pc, l_http_ok, l_expires_in, l_next_update_in,
               cb_state, crashed, token_not_after, requests, set_calls,
               taskVars, blobVars, restVars>>

(* The clock advances second by second (the first seconds of the process). *)
TickSecond ==
    /\ ~crashed
    /\ now + 1 <= MaxSeconds
    /\ now' = now + 1
    /\ UNCHANGED <<source, can_refresh, state_, refresh_deadline_, token_type_,
               access_token_, token_expires_at_, last_network_error_,
               pending_tasks_, cancel_refresh_now_, cancel_refresh_,
               refresh_task_thread_id_, has_set_thread_id_, shutting_down_,
               status_, resp_, rt_queue, delayed_now, delayed_retry, inflight,
               done_ready, rt_pc, l_http_ok, l_expires_in, l_next_update_in,
               cb_state, crashed, token_not_after, requests, set_calls,
               taskVars, blobVars, restVars>>

(* RunRefreshUnlocked: reset the buffers and hand the request to DoAsync. *)
RunRefreshUnlocked ==
    /\ requests < MaxRequests
    /\ requests' = requests + 1
    /\ resp_' = NoBody
    /\ status_' = "none"
    /\ inflight' = inflight + 1

(* RunAfterRefresh without its "case RUN: return". *)
RunAfterRefreshStarts_NoStateCheck == TRUE

(* Whether RunAfterRefresh starts a refresh: only from NOT_STARTED. *)
RunAfterRefreshStarts == state_ = "NOT_STARTED"

(* RunAfterRefresh queueing every closure. *)
GoAhead_Never == FALSE

(* RunAfterRefresh's first test: "access token is valid or oauth2 not *)
(* available, go ahead".                                              *)
GoAhead == now < token_expires_at_ \/ shutting_down_

(* RunAfterRefresh(thread_id, closure), called on thread t with callback c. *)
RunAfterRefresh(t, c) ==
    /\ CanRun(t)
    /\ cb_state[c] = "idle"
    /\ IF GoAhead
       THEN \* access token is valid or oauth2 not available, go ahead.
            /\ cb_state' = [cb_state EXCEPT ![c] = "ran"]
            /\ UNCHANGED <<pending_tasks_, state_, refresh_deadline_,
                           refresh_task_thread_id_, has_set_thread_id_, rt_queue>>
       ELSE IF InCooldown
       THEN /\ cb_state' = [cb_state EXCEPT ![c] = "ran"]
            /\ UNCHANGED <<pending_tasks_, state_, refresh_deadline_,
                           refresh_task_thread_id_, has_set_thread_id_, rt_queue>>
       ELSE /\ pending_tasks_' = Append(pending_tasks_, c)
            /\ cb_state' = [cb_state EXCEPT ![c] = "pending"]
            /\ IF RunAfterRefreshStarts
               THEN /\ state_' = "RUN"
                    /\ refresh_deadline_' = now + kRefreshTimeoutSec
                    /\ IF ~has_set_thread_id_
                       THEN /\ refresh_task_thread_id_' = t
                            /\ has_set_thread_id_' = TRUE
                       ELSE UNCHANGED <<refresh_task_thread_id_, has_set_thread_id_>>
                    /\ rt_queue' = Append(rt_queue, "RunRefresh")
               ELSE UNCHANGED <<state_, refresh_deadline_, refresh_task_thread_id_,
                                has_set_thread_id_, rt_queue>>
    /\ UNCHANGED <<now, source, can_refresh, token_type_, access_token_,
                   token_expires_at_, last_network_error_, cancel_refresh_now_,
                   cancel_refresh_, shutting_down_, status_, resp_, delayed_now,
                   delayed_retry, inflight, done_ready, rt_pc, l_http_ok,
                   l_expires_in, l_next_update_in, crashed, token_not_after, requests, set_calls,
               taskVars, blobVars, restVars>>

(* RunRefresh(): body shared by the posted closure and the delayed retry. *)
RunRefreshBody ==
    /\ cancel_refresh_' = FALSE
    /\ IF shutting_down_
       THEN UNCHANGED <<resp_, status_, inflight, requests>>
       ELSE RunRefreshUnlocked

(* The RunRefresh closure posted by RunAfterRefresh runs on the refresh thread. *)
RunRefreshPosted ==
    /\ RtIdle
    /\ rt_queue # <<>> /\ Head(rt_queue) = "RunRefresh"
    /\ rt_queue' = Tail(rt_queue)
    /\ RunRefreshBody
    /\ UNCHANGED <<now, source, can_refresh, state_, refresh_deadline_, token_type_,
               access_token_, token_expires_at_, last_network_error_,
               pending_tasks_, cancel_refresh_now_,
               refresh_task_thread_id_, has_set_thread_id_, shutting_down_,
               delayed_now, delayed_retry,
               done_ready, rt_pc, l_http_ok, l_expires_in, l_next_update_in,
               cb_state, crashed, token_not_after, set_calls,
               taskVars, blobVars, restVars>>

(* The delayed RunRefresh closure scheduled by a failed Done fires. *)
RunRefreshRetry ==
    /\ RtIdle
    /\ delayed_retry.pending /\ now >= delayed_retry.due
    /\ delayed_retry' = NoClosure
    /\ RunRefreshBody
    /\ UNCHANGED <<now, source, can_refresh, state_, refresh_deadline_, token_type_,
               access_token_, token_expires_at_, last_network_error_,
               pending_tasks_, cancel_refresh_now_,
               refresh_task_thread_id_, has_set_thread_id_, shutting_down_,
               rt_queue, delayed_now,
               done_ready, rt_pc, l_http_ok, l_expires_in, l_next_update_in,
               cb_state, crashed, token_not_after, set_calls,
               taskVars, blobVars, restVars>>

(* RunRefreshNow that never starts a refresh. *)
RunRefreshNowStarts_Never == FALSE

(* Whether RunRefreshNow starts a refresh: only from NOT_STARTED. *)
RunRefreshNowStarts == state_ = "NOT_STARTED"

(* The delayed RunRefreshNow closure scheduled by a successful Done fires. *)
RunRefreshNow ==
    /\ RtIdle
    /\ delayed_now.pending /\ now >= delayed_now.due
    /\ delayed_now' = NoClosure
    /\ IF ~cancel_refresh_now_
       THEN \* CHECK(cancel_refresh_now_) fails
            /\ crashed' = TRUE
            /\ UNCHANGED <<cancel_refresh_now_, state_, refresh_deadline_, resp_,
                           status_, inflight, requests>>
       ELSE /\ cancel_refresh_now_' = FALSE
            /\ crashed' = crashed
            /\ IF shutting_down_
               THEN UNCHANGED <<state_, refresh_deadline_, resp_, status_, inflight, requests>>
               ELSE IF RunRefreshNowStarts
               THEN /\ state_' = "RUN"
                    /\ refresh_deadline_' = now + kRefreshTimeoutSec
                    /\ RunRefreshUnlocked
               ELSE UNCHANGED <<state_, refresh_deadline_, resp_, status_, inflight, requests>>
    /\ UNCHANGED <<now, source, can_refresh, token_type_,
               access_token_, token_expires_at_, last_network_error_,
               pending_tasks_, cancel_refresh_,
               refresh_task_thread_id_, has_set_thread_id_, shutting_down_,
               rt_queue, delayed_retry,
               done_ready, rt_pc, l_http_ok, l_expires_in, l_next_update_in,
               cb_state, token_not_after, set_calls,
               taskVars, blobVars, restVars>>

(* Cancel(): the closure Shutdown() posts to the refresh thread. *)
Cancel ==
    /\ RtIdle
    /\ rt_queue # <<>> /\ Head(rt_queue) = "Cancel"
    /\ rt_queue' = Tail(rt_queue)
    /\ IF cancel_refresh_now_
       THEN delayed_now' = NoClosure /\ cancel_refresh_now_' = FALSE
       ELSE UNCHANGED <<delayed_now, cancel_refresh_now_>>
    /\ IF cancel_refresh_
       THEN delayed_retry' = NoClosure /\ cancel_refresh_' = FALSE
       ELSE UNCHANGED <<delayed_retry, cancel_refresh_>>
    /\ UNCHANGED <<now, source, can_refresh, state_, refresh_deadline_, token_type_,
               access_token_, token_expires_at_, last_network_error_,
               pending_tasks_,
               refresh_task_thread_id_, has_set_thread_id_, shutting_down_,
               status_, resp_, inflight,
               done_ready, rt_pc, l_http_ok, l_expires_in, l_next_update_in,
               cb_state, crashed, token_not_after, requests, set_calls,
               taskVars, blobVars, restVars>>

(* Shutdown() called on thread t.  On the refresh thread itself the second   *)
(* branch calls cancel_refresh_now_->Cancel() although the pointer tested is *)
(* cancel_refresh_: by then cancel_refresh_now_ is null, and the call either *)
(* kills the process or passes, leaving the retry closure pending.           *)
Shutdown(t) ==
    /\ CanRun(t)
    /\ IF shutting_down_
       THEN UNCHANGED <<shutting_down_, delayed_now, cancel_refresh_now_, rt_queue,
                        crashed>>
       ELSE /\ shutting_down_' = TRUE
            /\ IF cancel_refresh_now_ \/ cancel_refresh_
               THEN IF t = refresh_task_thread_id_
                    THEN /\ delayed_now' = IF cancel_refresh_now_ THEN NoClosure
                                           ELSE delayed_now
                         /\ cancel_refresh_now_' = FALSE
                         /\ IF cancel_refresh_
                            THEN crashed' \in BOOLEAN
                            ELSE crashed' = crashed
                         /\ UNCHANGED rt_queue
                    ELSE /\ rt_queue' = Append(rt_queue, "Cancel")
                         /\ UNCHANGED <<delayed_now, cancel_refresh_now_, crashed>>
               ELSE UNCHANGED <<delayed_now, cancel_refresh_now_, rt_queue, crashed>>
    /\ UNCHANGED <<now, source, can_refresh, state_, refresh_deadline_, token_type_,
               access_token_, token_expires_at_, last_network_error_,
               pending_tasks_, cancel_refresh_,
               refresh_task_thread_id_, has_set_thread_id_,
               status_, resp_, delayed_retry, inflight,
               done_ready, rt_pc, l_http_ok, l_expires_in, l_next_update_in,
               cb_state, token_not_after, requests, set_calls,
               taskVars, blobVars, restVars>>

(* Nobody has called Wait(). *)
InitWait == wait = [st |-> "none", thread |-> NoThread]

(* Wait() called on thread t after Shutdown(): the thread stays in           *)
(* cond_.Wait() while a handle is registered.                                *)
WaitCalled(t) ==
    /\ CanRun(t)
    /\ shutting_down_            \* CHECK(shutting_down_): the caller's duty
    /\ wait.st = "none"
    /\ wait' = [st |-> "waiting", thread |-> t]
    /\ UNCHANGED <<tokenVars, taskVars, blobVars, cacheVars, ipcVars, pathVars,
                   refVars, memVars, pureVars, dirVars, cppVars>>

(* The condition that ends the loop of Wait(). *)
HandlesNull == ~cancel_refresh_now_ /\ ~cancel_refresh_

(* Wait() returns: cond_ was signalled (or never waited for) and both        *)
(* handles are null.                                                         *)
WaitReturned ==
    /\ ~crashed /\ MuFree
    /\ wait.st = "waiting"
    /\ HandlesNull
    /\ wait' = [wait EXCEPT !.st = "returned"]
    /\ UNCHANGED <<tokenVars, taskVars, blobVars, cacheVars, ipcVars, pathVars,
                   refVars, memVars, pureVars, dirVars, cppVars>>

(* The HTTP client finishes the outstanding request: it fills status_ and    *)
(* resp_ and queues the Done callback.  A token is issued at this instant.   *)
HttpComplete ==
    /\ ~crashed
    /\ inflight > done_ready
    /\ \E kind \in {"ok200", "err0", "err5xx", "err4xx"} :
         /\ status_' = kind
         /\ IF kind = "ok200"
            THEN \/ resp_' = NoBody     \* a body that does not parse
                 \/ \E life \in Lifetimes :
                      resp_' = [ok |-> TRUE, lifetime |-> life,
                                not_after |-> now + life]
            ELSE resp_' = NoBody
    /\ done_ready' = done_ready + 1
    /\ UNCHANGED <<now, source, can_refresh, state_, refresh_deadline_, token_type_,
               access_token_, token_expires_at_, last_network_error_,
               pending_tasks_, cancel_refresh_now_, cancel_refresh_,
               refresh_task_thread_id_, has_set_thread_id_, shutting_down_,
               rt_queue, delayed_now, delayed_retry, inflight,
               rt_pc, l_http_ok, l_expires_in, l_next_update_in,
               cb_state, crashed, token_not_after, requests, set_calls,
               taskVars, blobVars, restVars>>

(* Done(), first part: retry while the deadline has not passed. *)
DoneBegin ==
    /\ RtIdle
    /\ done_ready > 0
    /\ done_ready' = done_ready - 1
    /\ inflight' = inflight - 1
    /\ IF status_ \in {"err0", "err5xx"}
       THEN IF now < refresh_deadline_
            THEN /\ IF cancel_refresh_
                    THEN crashed' = TRUE     \* CHECK(cancel_refresh_ == nullptr)
                    ELSE crashed' = crashed
                 /\ cancel_refresh_' = TRUE
                 /\ delayed_retry' = [pending |-> TRUE, due |-> now]
                 /\ UNCHANGED <<last_network_error_, l_http_ok, rt_pc>>
            ELSE /\ last_network_error_' = now
                 /\ l_http_ok' = FALSE
                 /\ rt_pc' = "done_parse"
                 /\ UNCHANGED <<cancel_refresh_, delayed_retry, crashed>>
       ELSE /\ l_http_ok' = TRUE
            /\ rt_pc' = "done_parse"
            /\ UNCHANGED <<last_network_error_, cancel_refresh_, delayed_retry, crashed>>
    /\ UNCHANGED <<now, source, can_refresh, state_, refresh_deadline_, token_type_,
               access_token_, token_expires_at_,
               pending_tasks_, cancel_refresh_now_,
               refresh_task_thread_id_, has_set_thread_id_, shutting_down_,
               status_, resp_, rt_queue, delayed_now,
               l_expires_in, l_next_update_in,
               cb_state, token_not_after, requests, set_calls,
               taskVars, blobVars, restVars>>

(* ParseOAuth2AccessTokenUnlocked taking the refresh timeout for the margin. *)
ExpireTimeMargin_RefreshTimeout == kRefreshTimeoutSec

(* The margin ParseOAuth2AccessTokenUnlocked takes off the token's lifetime. *)
ExpireTimeMargin == kOAuthExpireTimeMarginInSec

(* Done(), end of the locked part: the error window is cleared on success,   *)
(* the queued callbacks are taken and run, next_update_in is kept.           *)
DoneFinish(token, next_update_in) ==
    /\ IF l_http_ok /\ token # ""
       THEN last_network_error_' = 0
       ELSE UNCHANGED last_network_error_
    /\ pending_tasks_' = <<>>
    /\ cb_state' = [c \in Callbacks |->
                      IF cb_state[c] = "pending" THEN "ran" ELSE cb_state[c]]
    /\ l_next_update_in' = IF next_update_in > 0 THEN next_update_in ELSE 0
    /\ l_http_ok' = TRUE
    /\ l_expires_in' = 0
    /\ rt_pc' = IF next_update_in > 0 THEN "done_sched" ELSE "idle"

(* ParseOAuth2AccessTokenUnlocked from "time_t now = time(nullptr)" on. *)
StoreExpiry(token, expires_in) ==
    /\ token_expires_at_' = now + expires_in - ExpireTimeMargin
    /\ DoneFinish(token, expires_in - ExpireTimeMargin * 2)

(* Done(), locked part: state_ back to NOT_STARTED, parse the response. *)
DoneParse ==
    /\ ~crashed
    /\ rt_pc = "done_parse"
    /\ state_' = "NOT_STARTED"
    /\ refresh_deadline_' = 0
    /\ IF status_ # "ok200"
       THEN \* HTTP communication failed: the token is left as it is
            /\ UNCHANGED <<token_type_, access_token_, token_expires_at_,
                           token_not_after>>
            /\ DoneFinish(access_token_, 0)
       ELSE IF ~resp_.ok
       THEN /\ token_type_' = ""
            /\ access_token_' = ""
            /\ UNCHANGED <<token_expires_at_, token_not_after>>
            /\ DoneFinish("", 0)
       ELSE /\ token_type_' = "Bearer"
            /\ access_token_' = "tok"
            /\ token_not_after' = resp_.not_after
            /\ IF source = "luci"
               THEN \* LuciAuthRefreshConfig::ParseResponseBody reads the clock
                    /\ l_expires_in' = resp_.not_after - now
                    /\ rt_pc' = "done_parse2"
                    /\ UNCHANGED <<token_expires_at_, last_network_error_,
                                   pending_tasks_, cb_state, l_next_update_in,
                                   l_http_ok>>
               ELSE StoreExpiry("tok", resp_.lifetime)
    /\ UNCHANGED <<now, source, can_refresh,
               cancel_refresh_now_, cancel_refresh_,
               refresh_task_thread_id_, has_set_thread_id_, shutting_down_,
               status_, resp_, rt_queue, delayed_now, delayed_retry, inflight,
               done_ready, crashed, requests, set_calls,
               taskVars, blobVars, restVars>>

(* Done(), still under mu_: the second clock read, after the parse. *)
DoneParse2 ==
    /\ ~crashed
    /\ rt_pc = "done_parse2"
    /\ StoreExpiry(access_token_, l_expires_in)
    /\ UNCHANGED <<now, source, can_refresh, state_, refresh_deadline_, token_type_,
               access_token_, cancel_refresh_now_, cancel_refresh_,
               refresh_task_thread_id_, has_set_thread_id_, shutting_down_,
               status_, resp_, rt_queue, delayed_now, delayed_retry, inflight,
               done_ready, crashed, token_not_after, requests, set_calls,
               taskVars, blobVars, restVars>>

(* Done(), last part: register the delayed RunRefreshNow. *)
DoneSchedule ==
    /\ ~crashed
    /\ rt_pc = "done_sched"
    /\ rt_pc' = "idle"
    /\ l_next_update_in' = 0
    /\ IF shutting_down_ \/ cancel_refresh_now_
       THEN UNCHANGED <<cancel_refresh_now_, delayed_now>>
       ELSE /\ cancel_refresh_now_' = TRUE
            /\ delayed_now' = [pending |-> TRUE, due |-> now + l_next_update_in]
    /\ UNCHANGED <<now, source, can_refresh, state_, refresh_deadline_, token_type_,
               access_token_, token_expires_at_, last_network_error_,
               pending_tasks_, cancel_refresh_,
               refresh_task_thread_id_, has_set_thread_id_, shutting_down_,
               status_, resp_, rt_queue, delayed_retry, inflight,
               done_ready, l_http_ok, l_expires_in,
               cb_state, crashed, token_not_after, requests, set_calls,
               taskVars, blobVars, restVars>>

(* SetOAuth2Config(config): the LUCI config refuses it; the OAuth2 configs   *)
(* take it and the token is forgotten.                                       *)
SetOAuth2Config(t, has_refresh_token) ==
    /\ CanRun(t)
    /\ set_calls < MaxSetConfig
    /\ set_calls' = set_calls + 1
    /\ IF source = "luci"
       THEN UNCHANGED <<can_refresh, token_expires_at_, token_type_, access_token_>>
       ELSE /\ can_refresh' = has_refresh_token
            /\ token_expires_at_' = now
            /\ token_type_' = ""
            /\ access_token_' = ""
    /\ UNCHANGED <<now, source, state_, refresh_deadline_, last_network_error_,
               pending_tasks_, cancel_refresh_now_, cancel_refresh_,
               refresh_task_thread_id_, has_set_thread_id_, shutting_down_,
               status_, resp_, rt_queue, delayed_now, delayed_retry, inflight,
               done_ready, rt_pc, l_http_ok, l_expires_in, l_next_update_in,
               cb_state, crashed, token_not_after, requests,
               taskVars, blobVars, restVars>>

(* A caller on thread t asks for the Authorization header. *)
GetAuthorizationCall(t) ==
    /\ CanRun(t)
    /\ GetAuthorization \in {<<>>, <<token_type_, access_token_>>}
    /\ UNCHANGED <<requests, now, source, can_refresh, state_, refresh_deadline_, token_type_,
               access_token_, token_expires_at_, last_network_error_,
               pending_tasks_, cancel_refresh_now_, cancel_refresh_,
               refresh_task_thread_id_, has_set_thread_id_, shutting_down_,
               status_, resp_, rt_queue, delayed_now, delayed_retry, inflight,
               done_ready, rt_pc, l_http_ok, l_expires_in, l_next_update_in,
               cb_state, crashed, token_not_after, set_calls,
               taskVars, blobVars, restVars>>

NextToken ==
    \/ Tick
    \/ \E t \in Threads, c \in Callbacks : RunAfterRefresh(t, c)
    \/ RunRefreshPosted
    \/ RunRefreshRetry
    \/ RunRefreshNow
    \/ Cancel
    \/ \E t \in Threads : Shutdown(t)
    \/ HttpComplete
    \/ DoneBegin
    \/ DoneParse
    \/ DoneParse2
    \/ DoneSchedule
    \/ \E t \in Threads, b \in BOOLEAN : SetOAuth2Config(t, b)
    \/ \E t \in Threads : GetAuthorizationCall(t)

(* The refresher on a clock of one-second resolution: the refresh path and  *)
(* its readers, without Shutdown() and SetOAuth2Config().                   *)
NextTokenSeconds ==
    \/ TickSecond
    \/ \E t \in Threads, c \in Callbacks : RunAfterRefresh(t, c)
    \/ RunRefreshPosted
    \/ RunRefreshRetry
    \/ HttpComplete
    \/ DoneBegin
    \/ DoneParse
    \/ DoneParse2
    \/ DoneSchedule
    \/ \E t \in Threads : GetAuthorizationCall(t)

(* The refresh path and SetOAuth2Config(): the token and the refresh token  *)
(* come and go, nothing is shut down.                                       *)
NextTokenConfig ==
    \/ Tick
    \/ \E t \in Threads, c \in Callbacks : RunAfterRefresh(t, c)
    \/ RunRefreshPosted
    \/ RunRefreshRetry
    \/ HttpComplete
    \/ DoneBegin
    \/ DoneParse
    \/ DoneParse2
    \/ DoneSchedule
    \/ \E t \in Threads, b \in BOOLEAN : SetOAuth2Config(t, b)

(* The refresh path and Shutdown(): callers, the posted and delayed         *)
(* closures, the HTTP client and Done(), on the coarse clock.               *)
NextTokenRefresh ==
    \/ Tick
    \/ \E t \in Threads, c \in Callbacks : RunAfterRefresh(t, c)
    \/ RunRefreshPosted
    \/ RunRefreshRetry
    \/ RunRefreshNow
    \/ Cancel
    \/ \E t \in Threads : Shutdown(t)
    \/ HttpComplete
    \/ DoneBegin
    \/ DoneParse
    \/ DoneParse2
    \/ DoneSchedule

(* When the refresh under way was started: refresh_deadline_ is set to the *)
(* start time plus kRefreshTimeoutSec with state_ = RUN.                   *)
StartedAt == refresh_deadline_ - kRefreshTimeoutSec

(* How long a refresh takes at most when the issuer is in time. *)
RefreshWithin == kOAuthExpireTimeMarginInSec

(* The clock of a process whose refreshes are in time: a refresh under way  *)
(* is not older than RefreshWithin, a delayed RunRefreshNow runs when it is *)
(* due, and Done() runs as the answer arrives, without being held up.       *)
TickInTime ==
    /\ rt_pc = "idle"
    /\ done_ready = 0
    /\ state_ = "RUN" => now + TickSec <= StartedAt + RefreshWithin
    /\ delayed_now.pending => now + TickSec <= delayed_now.due
    /\ Tick

(* The issuer answers the request with a token that lives longer than twice *)
(* the margin.                                                              *)
RefreshSucceeds ==
    /\ HttpComplete
    /\ status_' = "ok200"
    /\ resp_'.ok
    /\ resp_'.lifetime > 2 * kOAuthExpireTimeMarginInSec

(* The refresh path with an issuer that always answers in time, and        *)
(* Shutdown().                                                              *)
NextTokenInTime ==
    \/ TickInTime
    \/ \E t \in Threads, c \in Callbacks : RunAfterRefresh(t, c)
    \/ RunRefreshPosted
    \/ RunRefreshNow
    \/ Cancel
    \/ \E t \in Threads : Shutdown(t)
    \/ RefreshSucceeds
    \/ DoneBegin
    \/ DoneParse
    \/ DoneParse2
    \/ DoneSchedule

(* The refresh path, Shutdown() and Wait(). *)
NextTokenWait ==
    \/ Tick
    \/ \E t \in Threads, c \in Callbacks : RunAfterRefresh(t, c)
    \/ RunRefreshPosted
    \/ RunRefreshRetry
    \/ RunRefreshNow
    \/ Cancel
    \/ \E t \in Threads : Shutdown(t)
    \/ HttpComplete
    \/ DoneBegin
    \/ DoneParse
    \/ DoneParse2
    \/ DoneSchedule
    \/ \E t \in Threads : WaitCalled(t)
    \/ WaitReturned

-----------------------------------------------------------------------------
(* CompileTask (client/compile_task.h).  The header declares the states,   *)
(* the members and, in its comments, the state each Process* method runs   *)
(* in; the bodies follow the TaskEngine's stage contracts.  One task is    *)
(* modelled: tasks share nothing but the process-wide caches.              *)

State == {"INIT", "SETUP", "FILE_REQ", "CALL_EXEC", "LOCAL_OUTPUT", "FILE_RESP",
          "FINISHED", "LOCAL_RUN", "LOCAL_FINISHED"}

Outputs == 1..NumOutputs

(* Work whose completion callback is still to run on the owner thread. *)
PendingOps == {"start", "init", "setup", "upload", "exec", "download",
               "local_output", "aborted"}

(* The calls to the remote side among them. *)
RpcOps == {"upload", "exec", "download"}

NoStaging == [o \in Outputs |-> "none"]
NoOutput == [o \in Outputs |-> "absent"]

(* CompileTask(service, id): the members after construction. *)
NewTask(want_fallback) ==
    [state_ |-> "INIT", abort_ |-> FALSE, finished_ |-> FALSE,
     canceled_ |-> FALSE, want_fallback_ |-> want_fallback,
     should_fallback_ |-> FALSE, fail_fallback_ |-> FALSE,
     local_run_ |-> FALSE, local_killed_ |-> FALSE,
     subproc_ |-> "null", subproc_exit_status_ |-> 0, exit_status_ |-> 0]

InitTask ==
    /\ fallback_policy \in {"none", "fast"}
    /\ task \in {NewTask(w) : w \in BOOLEAN}
    /\ op = "start"
    /\ staging = NoStaging
    /\ final = NoOutput
    /\ committing = FALSE
    /\ reply = "none"
    /\ task_done = FALSE
    /\ gomacc_closed = FALSE
    /\ retries = 0
    /\ rpc_after_close = FALSE

(* IsSubprocRunning(): subproc_ is set and FinishSubProcess has not run. *)
IsSubprocRunning(t) == t.subproc_ # "null"

(* Done(): the task expires once the remote calls have finished, the       *)
(* subprocess has been joined, and the client was answered or is gone.     *)
Expires(t, r) ==
    /\ t.finished_
    /\ ~IsSubprocRunning(t)
    /\ (r # "none" \/ t.canceled_)

(* What ProcessFinished leaves in state_: FINISHED, or the state it had    *)
(* when abort_ is set.                                                     *)
FinishedState_IgnoreAbort(t) == "FINISHED"

FinishedState(t) == IF t.abort_ THEN t.state_ ELSE "FINISHED"

(* Cancelling the work in flight: its callback still arrives, carrying      *)
(* nothing.                                                                 *)
AbortOp_KeepRunning(o) == o

AbortOp(o) == IF o \in PendingOps THEN "aborted" ELSE o

(* KillSubProcess(): FinishSubProcess will be called later. *)
KillSubProcess_NoKill(s) == s

KillSubProcess(s) == IF s = "null" THEN "null" ELSE "killed"

(* RunSubProcess(reason): the subprocess is set up if need be and runs at   *)
(* high priority.                                                           *)
RunSubProcess(s) == IF s \in {"null", "ready"} THEN "running" ELSE s

(* What the local compiler left at the output paths. *)
LocalOutput(status) ==
    IF status = 0 THEN [o \in Outputs |-> "local"] ELSE NoOutput

(* Outcomes of a failed remote stage that the local compiler may repair:   *)
(* CompilerNotFound and RpcSemantic fall back only when the request opts    *)
(* in to it; every other error falls back.                                  *)
FallbackAllowed(t, kind) ==
    kind \in {"CompilerNotFound", "RpcSemantic"} => t.want_fallback_

(* ProcessFinished(msg) on the task value t the calling handler has built.  *)
(* state_: -> FINISHED or abort_; finished_ becomes true; joins in          *)
(* FinishSubProcess if subproc_ is active.  result is "ok" (the remote      *)
(* result is to be used), "report" (the remote error is the answer) or      *)
(* "fallback" (the local compiler is to repair the failure).                *)
ProcessFinished(t, result) ==
    LET t1 == [t EXCEPT !.finished_ = TRUE, !.state_ = FinishedState(t)]
        won == [t1 EXCEPT !.subproc_ = KillSubProcess(t.subproc_),
                          !.local_killed_ = t.local_killed_ \/ IsSubprocRunning(t)]
    IN  /\ op' = "none"
        /\ IF t.canceled_ \/ t.abort_
           THEN /\ task' = t1
                /\ staging' = NoStaging
                /\ task_done' = Expires(t1, reply)
           ELSE /\ task' = CASE result = "ok" -> won
                             [] result = "report" ->
                                    [won EXCEPT !.exit_status_ = 1]
                             [] OTHER ->
                                    [t1 EXCEPT !.fail_fallback_ = TRUE,
                                               !.exit_status_ = 1,
                                               !.subproc_ = RunSubProcess(t.subproc_)]
                /\ staging' = IF result = "ok" THEN staging ELSE NoStaging
                /\ UNCHANGED task_done
        /\ UNCHANGED <<final, committing, reply>>

(* Start(): the INIT stage.  With the fast-fallback policy a subprocess is  *)
(* scheduled at low priority (SetupSubProcess).                             *)
Start ==
    /\ op = "start"
    /\ task' = [task EXCEPT !.subproc_ =
                   IF fallback_policy = "fast" THEN "ready" ELSE "null"]
    /\ op' = "init"
    /\ UNCHANGED <<fallback_policy, staging, final, committing, reply, task_done,
                   gomacc_closed, retries, rpc_after_close,
                   tokenVars, blobVars, restVars>>

(* ProcessSetup(): state_ INIT -> SETUP; flags, compiler info and the       *)
(* include processor run on worker threads.                                 *)
ProcessSetup ==
    /\ op = "init"
    /\ task.state_ = "INIT"
    /\ task' = [task EXCEPT !.state_ = "SETUP"]
    /\ op' = "setup"
    /\ UNCHANGED <<fallback_policy, staging, final, committing, reply, task_done,
                   gomacc_closed, retries, rpc_after_close,
                   tokenVars, blobVars, restVars>>

(* SetupRequestDone(ok): the end of SETUP.                                  *)
(*   "ok"       ProcessFileRequest: SETUP -> FILE_REQ, InputFileTasks run;  *)
(*   "hit"      the local output cache has the outputs: LOCAL_OUTPUT;       *)
(*   "fallback" an error the local build recovers from: should_fallback_,   *)
(*              local-only completion (LOCAL_RUN);                          *)
(*   "error"    the compiler was not found.                                 *)
SetupRequestDone(outcome) ==
    /\ op = "setup"
    /\ task.state_ = "SETUP"
    /\ CASE outcome = "ok" ->
              /\ task' = [task EXCEPT !.state_ = "FILE_REQ"]
              /\ op' = "upload"
              /\ rpc_after_close' = (rpc_after_close \/ task.canceled_)
              /\ UNCHANGED <<staging, final, committing, reply, task_done>>
         [] outcome = "hit" ->
              /\ task' = [task EXCEPT !.state_ = "LOCAL_OUTPUT"]
              /\ op' = "local_output"
              /\ staging' = [o \in Outputs |-> "verified"]
              /\ UNCHANGED <<final, committing, reply, task_done, rpc_after_close>>
         [] outcome = "fallback" ->
              /\ task' = [task EXCEPT !.state_ = "LOCAL_RUN",
                                      !.should_fallback_ = TRUE,
                                      !.finished_ = TRUE,
                                      !.subproc_ = RunSubProcess(task.subproc_)]
              /\ op' = "none"
              /\ UNCHANGED <<staging, final, committing, reply, task_done,
                             rpc_after_close>>
         [] OTHER ->
              /\ ProcessFinished(task,
                    IF FallbackAllowed(task, "CompilerNotFound")
                    THEN "fallback" ELSE "report")
              /\ UNCHANGED rpc_after_close
    /\ UNCHANGED <<fallback_policy, gomacc_closed, retries,
                   tokenVars, blobVars, restVars>>

(* ProcessFileRequestDone(): every InputFileTask has finished.  On success  *)
(* ProcessCallExec: FILE_REQ -> CALL_EXEC, the Exec call is issued.         *)
ProcessFileRequestDone(ok) ==
    /\ op = "upload"
    /\ task.state_ = "FILE_REQ"
    /\ IF ok
       THEN /\ task' = [task EXCEPT !.state_ = "CALL_EXEC"]
            /\ op' = "exec"
            /\ rpc_after_close' = (rpc_after_close \/ task.canceled_)
            /\ UNCHANGED <<staging, final, committing, reply, task_done>>
       ELSE /\ ProcessFinished(task, "fallback")
            /\ UNCHANGED rpc_after_close
    /\ UNCHANGED <<fallback_policy, gomacc_closed, retries,
                   tokenVars, blobVars, restVars>>

(* ProcessCallExecDone(): the Exec call returned.                           *)
(*   "ok"           ProcessFileResponse: CALL_EXEC -> FILE_RESP;            *)
(*   "RpcTransport" (or HTTP 5xx) retried within the budget, then fallback; *)
(*   "RpcSemantic"  (4xx, malformed body) never retried.                    *)
ProcessCallExecDone(res) ==
    /\ op = "exec"
    /\ task.state_ = "CALL_EXEC"
    /\ CASE res = "ok" ->
              /\ task' = [task EXCEPT !.state_ = "FILE_RESP"]
              /\ op' = "download"
              /\ rpc_after_close' = (rpc_after_close \/ task.canceled_)
              /\ UNCHANGED <<staging, final, committing, reply, task_done, retries>>
         [] res = "RpcTransport" /\ retries < RetryBudget ->
              /\ retries' = retries + 1
              /\ rpc_after_close' = (rpc_after_close \/ task.canceled_)
              /\ UNCHANGED <<task, op, staging, final, committing, reply,
                             task_done>>
         [] res = "RpcTransport" /\ retries >= RetryBudget ->
              /\ ProcessFinished(task, "fallback")
              /\ UNCHANGED <<retries, rpc_after_close>>
         [] OTHER ->
              /\ ProcessFinished(task,
                    IF FallbackAllowed(task, "RpcSemantic")
                    THEN "fallback" ELSE "report")
              /\ UNCHANGED <<retries, rpc_after_close>>
    /\ UNCHANGED <<fallback_policy, gomacc_closed,
                   tokenVars, blobVars, restVars>>

(* An OutputFileTask starts writing output o into the staging directory. *)
StartOutputFileTask(o) ==
    /\ op = "download"
    /\ staging[o] = "none"
    /\ staging' = [staging EXCEPT ![o] = "partial"]
    /\ UNCHANGED <<fallback_policy, task, op, final, committing, reply, task_done,
                   gomacc_closed, retries, rpc_after_close,
                   tokenVars, blobVars, restVars>>

(* OutputFileTaskFinished(): output o is complete in staging and its hash   *)
(* and size were checked against the response.                              *)
OutputFileTaskFinished(o, ok) ==
    /\ op = "download"
    /\ staging[o] = "partial"
    /\ staging' = [staging EXCEPT ![o] = IF ok THEN "verified" ELSE "bad"]
    /\ UNCHANGED <<fallback_policy, task, op, final, committing, reply, task_done,
                   gomacc_closed, retries, rpc_after_close,
                   tokenVars, blobVars, restVars>>

(* MaybeRunOutputFileCallback(): the callback runs when the last            *)
(* OutputFileTask has finished.                                             *)
AllOutputFileTasksFinished_AnyOne ==
    \E o \in Outputs : staging[o] \in {"verified", "bad"}

AllOutputFileTasksFinished ==
    \A o \in Outputs : staging[o] \in {"verified", "bad"}

(* ProcessFileResponseDone(): an output that failed verification makes the  *)
(* remote run a failure (OutputVerify) and the task falls back.             *)
ProcessFileResponseDone ==
    /\ op = "download"
    /\ task.state_ = "FILE_RESP"
    /\ AllOutputFileTasksFinished
    /\ ProcessFinished(task,
          IF \E o \in Outputs : staging[o] = "bad" THEN "fallback" ELSE "ok")
    /\ UNCHANGED <<fallback_policy, gomacc_closed, retries, rpc_after_close,
                   tokenVars, blobVars, restVars>>

(* ProcessLocalFileOutputDone(): the outputs of the local output cache are  *)
(* in place; LOCAL_OUTPUT -> FINISHED.                                      *)
ProcessLocalFileOutputDone ==
    /\ op = "local_output"
    /\ task.state_ = "LOCAL_OUTPUT"
    /\ ProcessFinished(task, "ok")
    /\ UNCHANGED <<fallback_policy, gomacc_closed, retries, rpc_after_close,
                   tokenVars, blobVars, restVars>>

(* The callback of work that was cancelled: nothing but ProcessFinished. *)
ProcessAborted ==
    /\ op = "aborted"
    /\ ProcessFinished(task, "ok")
    /\ UNCHANGED <<fallback_policy, gomacc_closed, retries, rpc_after_close,
                   tokenVars, blobVars, restVars>>

(* ProcessReply(): state_ FINISHED && !abort_ && subprocess has been        *)
(* finished.                                                                *)
ProcessReplyReady_NoJoin ==
    task.state_ = "FINISHED" /\ ~task.abort_

ProcessReplyReady ==
    task.state_ = "FINISHED" /\ ~task.abort_ /\ ~IsSubprocRunning(task)

(* ProcessReply() up to CommitOutput(): the renames start. *)
ProcessReply ==
    /\ op = "none"
    /\ ProcessReplyReady
    /\ task.finished_ /\ ~task.fail_fallback_ /\ ~task.canceled_
    /\ reply = "none" /\ ~committing /\ ~task_done
    /\ committing' = TRUE
    /\ UNCHANGED <<fallback_policy, task, op, staging, final, reply, task_done,
                   gomacc_closed, retries, rpc_after_close,
                   tokenVars, blobVars, restVars>>

(* RenameCallback(): CommitOutput moves the staged output o to its final    *)
(* path with one rename.  A rename that fails for good unlinks what was     *)
(* committed and the task falls back to the local compiler.                 *)
RenameCallback(o, ok) ==
    /\ committing
    /\ staging[o] # "none"
    /\ IF ok
       THEN /\ final' = [final EXCEPT ![o] =
                            IF staging[o] = "verified" THEN "goma" ELSE "partial"]
            /\ staging' = [staging EXCEPT ![o] = "none"]
            /\ UNCHANGED <<task, committing>>
       ELSE /\ final' = NoOutput
            /\ staging' = NoStaging
            /\ committing' = FALSE
            /\ task' = [task EXCEPT !.fail_fallback_ = TRUE,
                                    !.exit_status_ = 1,
                                    !.subproc_ = RunSubProcess(task.subproc_)]
    /\ UNCHANGED <<fallback_policy, op, reply, task_done, gomacc_closed, retries,
                   rpc_after_close,
                   tokenVars, blobVars, restVars>>

(* CommitOutput() has renamed every output. *)
CommitOutputDone == staging = NoStaging

(* ReplyResponse(msg) at the end of ProcessReply(), then Done(). *)
ReplyResponse ==
    /\ committing
    /\ CommitOutputDone
    /\ reply' = "goma"
    /\ committing' = FALSE
    /\ task_done' = TRUE
    /\ UNCHANGED <<fallback_policy, task, op, staging, final, gomacc_closed,
                   retries, rpc_after_close,
                   tokenVars, blobVars, restVars>>

(* The process manager starts the scheduled subprocess. *)
SubProcessStarted ==
    /\ task.subproc_ = "ready"
    /\ task' = [task EXCEPT !.subproc_ = "running"]
    /\ UNCHANGED <<fallback_policy, op, staging, final, committing, reply,
                   task_done, gomacc_closed, retries, rpc_after_close,
                   tokenVars, blobVars, restVars>>

(* The local compiler exits with the given status. *)
SubProcessTerminated(status) ==
    /\ task.subproc_ = "running"
    /\ task' = [task EXCEPT !.subproc_ = "exited",
                            !.subproc_exit_status_ = status]
    /\ UNCHANGED <<fallback_policy, op, staging, final, committing, reply,
                   task_done, gomacc_closed, retries, rpc_after_close,
                   tokenVars, blobVars, restVars>>

(* state_ once the local run has finished and its result is the response:   *)
(* a local run that issued no goma call (LOCAL_RUN) becomes LOCAL_FINISHED;  *)
(* every other state is kept: FINISHED under fail fallback, and under       *)
(* abort_ the running state, which is the "state at response sent".         *)
LocalFinishState_Always(s) == "LOCAL_FINISHED"

LocalFinishState(s) == IF s = "LOCAL_RUN" THEN "LOCAL_FINISHED" ELSE s

(* FinishSubProcess(): the subprocess is joined on the owner thread.        *)
(*  - the client is gone: nothing to answer;                                *)
(*  - the subprocess was killed because the remote result is used:          *)
(*    ProcessReply follows;                                                 *)
(*  - fail fallback (state_ FINISHED): the local result is the answer;      *)
(*  - otherwise the local process finished first: abort_, the remote work   *)
(*    is cancelled, what was downloaded is discarded, and the response is   *)
(*    sent in the state LocalFinishState leaves.                            *)
FinishSubProcess ==
    /\ task.subproc_ \in {"exited", "killed"}
    /\ ~committing
    /\ LET t0 == [task EXCEPT !.subproc_ = "null"]
           local == [t0 EXCEPT !.local_run_ = TRUE]
           raced == [local EXCEPT !.abort_ = TRUE,
                                  !.state_ = LocalFinishState(task.state_),
                                  !.finished_ = (op \notin PendingOps)]
       IN  CASE task.canceled_ ->
                  IF op \in PendingOps
                  THEN /\ task' = t0
                       /\ UNCHANGED <<op, staging, final, reply, task_done>>
                  ELSE /\ ProcessFinished(t0, "ok")
             [] ~task.canceled_ /\ task.subproc_ = "killed" ->
                  /\ task' = t0
                  /\ UNCHANGED <<op, staging, final, reply, task_done>>
             [] ~task.canceled_ /\ task.subproc_ = "exited"
                    /\ task.fail_fallback_ ->
                  /\ task' = [local EXCEPT
                                !.state_ = LocalFinishState(task.state_)]
                  /\ reply' = "local"
                  /\ final' = LocalOutput(task.subproc_exit_status_)
                  /\ task_done' = TRUE
                  /\ UNCHANGED <<op, staging>>
             [] OTHER ->
                  /\ task' = raced
                  /\ op' = AbortOp(op)
                  /\ staging' = NoStaging
                  /\ reply' = "local"
                  /\ final' = LocalOutput(task.subproc_exit_status_)
                  /\ task_done' = raced.finished_
    /\ UNCHANGED <<fallback_policy, committing, gomacc_closed, retries,
                   rpc_after_close,
                   tokenVars, blobVars, restVars>>

(* GomaccClosed() has an effect while the client has not been answered. *)
Cancellable_Always == TRUE

Cancellable == reply = "none" /\ ~task_done

(* GomaccClosed(): the goma ipc is closed.  canceled_ is set, the work in   *)
(* flight is aborted, the subprocess is killed and the staging files are    *)
(* deleted; with nothing left to wait for the task finishes at once.        *)
GomaccClosed ==
    /\ ~gomacc_closed
    /\ ~committing
    /\ gomacc_closed' = TRUE
    /\ IF Cancellable
       THEN LET t0 == [task EXCEPT !.canceled_ = TRUE,
                                   !.subproc_ = KillSubProcess(task.subproc_)]
            IN  IF op \in PendingOps \/ IsSubprocRunning(t0)
                THEN /\ task' = t0
                     /\ op' = AbortOp(op)
                     /\ staging' = NoStaging
                     /\ UNCHANGED <<final, committing, reply, task_done>>
                ELSE ProcessFinished(t0, "ok")
       ELSE UNCHANGED <<task, op, staging, final, committing, reply, task_done>>
    /\ UNCHANGED <<fallback_policy, retries, rpc_after_close,
                   tokenVars, blobVars, restVars>>

NextTask ==
    \/ Start
    \/ ProcessSetup
    \/ \E outcome \in {"ok", "hit", "fallback", "error"} : SetupRequestDone(outcome)
    \/ \E ok \in BOOLEAN : ProcessFileRequestDone(ok)
    \/ \E res \in {"ok", "RpcTransport", "RpcSemantic"} : ProcessCallExecDone(res)
    \/ \E o \in Outputs : StartOutputFileTask(o)
    \/ \E o \in Outputs, ok \in BOOLEAN : OutputFileTaskFinished(o, ok)
    \/ ProcessFileResponseDone
    \/ ProcessLocalFileOutputDone
    \/ ProcessAborted
    \/ ProcessReply
    \/ \E o \in Outputs, ok \in BOOLEAN : RenameCallback(o, ok)
    \/ ReplyResponse
    \/ SubProcessStarted
    \/ \E status \in {0, 1} : SubProcessTerminated(status)
    \/ FinishSubProcess
    \/ GomaccClosed

-----------------------------------------------------------------------------
(* BlobStage: the process-wide map from content hash to upload status, and  *)
(* EnsurePresent for one blob (path, expected_hash) per calling task.       *)

Hashes == {"h1", "h2"}
Callers == 1..NumCallers

(* The caller has not called yet, waits on an upload it attached to,       *)
(* performs the upload itself, or has its outcome.                          *)
CallerStates == {"idle", "attached", "uploading", "queued", "rpc", "ok", "err"}

InitBlob ==
    /\ blob = [h \in Hashes |-> "Unknown"]
    /\ disk = "h1"
    /\ caller = [c \in Callers |-> [st |-> "idle", hash |-> "h1"]]
    /\ upload_queue = <<>>
    /\ upload_rpcs = [h \in Hashes |-> 0]
    /\ rounds = [h \in Hashes |-> 0]
    /\ file_changes = 0

(* Upload RPCs in flight. *)
ActiveUploads == {c \in Callers : caller[c].st = "rpc"}

(* Lookup: which statuses make the caller upload the blob itself. *)
NeedsUpload_NoCoalesce(s) == s # "Present"

NeedsUpload(s) == s \in {"Unknown", "Failed"}

(* The map lookup of EnsurePresent for hash h on behalf of caller c. *)
Lookup(c, h) ==
    IF blob[h] = "Present"
    THEN /\ caller' = [caller EXCEPT ![c] = [st |-> "ok", hash |-> h]]
         /\ UNCHANGED <<blob, rounds>>
    ELSE IF NeedsUpload(blob[h])
    THEN /\ blob' = [blob EXCEPT ![h] = "Uploading"]
         /\ rounds' = [rounds EXCEPT ![h] = IF blob[h] = "Uploading" THEN @ ELSE @ + 1]
         /\ caller' = [caller EXCEPT ![c] = [st |-> "uploading", hash |-> h]]
    ELSE /\ caller' = [caller EXCEPT ![c] = [st |-> "attached", hash |-> h]]
         /\ UNCHANGED <<blob, rounds>>

(* EnsurePresent(blobs, ctx) by caller c: the expected hash is the one the  *)
(* task computed from the file as it is now.                                *)
EnsurePresent(c) ==
    /\ caller[c].st = "idle"
    /\ Lookup(c, disk)
    /\ UNCHANGED <<disk, upload_queue, upload_rpcs, file_changes,
                   tokenVars, taskVars, restVars>>

(* The file changes underfoot. *)
FileChanged ==
    /\ file_changes < MaxFileChanges
    /\ file_changes' = file_changes + 1
    /\ disk' = IF disk = "h1" THEN "h2" ELSE "h1"
    /\ UNCHANGED <<blob, caller, upload_queue, upload_rpcs, rounds,
                   tokenVars, taskVars, restVars>>

(* The uploader reads the file and computes its hash.  On a mismatch with   *)
(* the expected hash the entry is dropped from the map, its waiters get the *)
(* error, and the file is staged again under the hash it has now.  On a     *)
(* match the upload RPC is issued, or queued when max_concurrent_uploads    *)
(* RPCs are active.                                                         *)
ReadAndVerify(c) ==
    /\ caller[c].st = "uploading"
    /\ LET h == caller[c].hash IN
       IF disk # h
       THEN /\ blob' = [blob EXCEPT ![h] = "Unknown"]
            /\ caller' = [d \in Callers |->
                  IF d = c THEN [st |-> "idle", hash |-> h]
                  ELSE IF caller[d].st = "attached" /\ caller[d].hash = h
                       THEN [caller[d] EXCEPT !.st = "err"]
                       ELSE caller[d]]
            /\ UNCHANGED <<upload_queue, upload_rpcs>>
       ELSE IF Cardinality(ActiveUploads) < max_concurrent_uploads
            THEN /\ caller' = [caller EXCEPT ![c].st = "rpc"]
                 /\ upload_rpcs' = [upload_rpcs EXCEPT ![h] = @ + 1]
                 /\ UNCHANGED <<blob, upload_queue>>
            ELSE /\ caller' = [caller EXCEPT ![c].st = "queued"]
                 /\ upload_queue' = Append(upload_queue, c)
                 /\ UNCHANGED <<blob, upload_rpcs>>
    /\ UNCHANGED <<disk, rounds, file_changes,
                   tokenVars, taskVars, restVars>>

(* The upload RPC of caller c completes: Present on success, Failed on      *)
(* error; every attached waiter is woken with the same outcome, and the     *)
(* head of the queue issues its RPC.                                        *)
UploadDone(c, ok) ==
    /\ caller[c].st = "rpc"
    /\ LET h == caller[c].hash
           outcome == IF ok THEN "ok" ELSE "err"
           next == IF upload_queue = <<>> THEN 0 ELSE Head(upload_queue)
       IN  /\ blob' = [blob EXCEPT ![h] = IF ok THEN "Present" ELSE "Failed"]
           /\ caller' = [d \in Callers |->
                 IF d = c \/ (caller[d].st = "attached" /\ caller[d].hash = h)
                 THEN [caller[d] EXCEPT !.st = outcome]
                 ELSE IF d = next THEN [caller[d] EXCEPT !.st = "rpc"]
                 ELSE caller[d]]
           /\ upload_queue' = IF next = 0 THEN <<>> ELSE Tail(upload_queue)
           /\ upload_rpcs' = IF next = 0 THEN upload_rpcs
                             ELSE [upload_rpcs EXCEPT ![caller[next].hash] = @ + 1]
    /\ UNCHANGED <<disk, rounds, file_changes,
                   tokenVars, taskVars, restVars>>

NextBlob ==
    \/ \E c \in Callers : EnsurePresent(c)
    \/ FileChanged
    \/ \E c \in Callers : ReadAndVerify(c)
    \/ \E c \in Callers, ok \in BOOLEAN : UploadDone(c, ok)

-----------------------------------------------------------------------------
(* CompilerInfoCache.  CompileTask reaches it in SETUP through              *)
(* FillCompilerInfo() and gets the answer in FillCompilerInfoDone(); the    *)
(* cache itself follows its contract: GetOrProbe(key, probe_fn) and         *)
(* Invalidate(key).                                                         *)

Keys == {"k1", "k2"}
Getters == 1..NumGetters

(* What a probe returns: the CompilerInfo of the n-th probe of the key, or  *)
(* the failure of that probe.                                               *)
CompilerInfos == [probe : 1..MaxProbesPerKey, ok : BOOLEAN]

NoCompilerInfo == [probe |-> 0, ok |-> FALSE]

NoEntry == [st |-> "Absent", info |-> NoCompilerInfo]

InitCache ==
    /\ cinfo_cache = [k \in Keys |-> NoEntry]
    /\ cinfo_probes = [k \in Keys |-> 0]
    /\ getter = [g \in Getters |-> [st |-> "idle", key |-> "k1",
                                    result |-> NoCompilerInfo]]
    /\ invalidations = [k \in Keys |-> 0]

(* GetOrProbe running the probe behind a pending one. *)
MustProbe_NoSingleFlight(e) == e.st \in {"Absent", "Probing"}

(* GetOrProbe runs probe_fn itself only when the key has no entry and no    *)
(* probe pending.                                                           *)
MustProbe(e) == e.st = "Absent"

(* GetOrProbe(key, probe_fn) called by g: the cached value is returned; a   *)
(* pending probe is waited for; otherwise g runs probe_fn.                  *)
GetOrProbe(g, k) ==
    /\ getter[g].st = "idle"
    /\ IF MustProbe(cinfo_cache[k])
       THEN /\ cinfo_probes[k] < MaxProbesPerKey
            /\ cinfo_probes' = [cinfo_probes EXCEPT ![k] = @ + 1]
            /\ cinfo_cache' = [cinfo_cache EXCEPT ![k] =
                                  [st |-> "Probing", info |-> NoCompilerInfo]]
            /\ getter' = [getter EXCEPT ![g] = [st |-> "probing", key |-> k,
                                                result |-> NoCompilerInfo]]
       ELSE IF cinfo_cache[k].st = "Probing"
       THEN /\ getter' = [getter EXCEPT ![g] = [st |-> "waiting", key |-> k,
                                                result |-> NoCompilerInfo]]
            /\ UNCHANGED <<cinfo_cache, cinfo_probes>>
       ELSE /\ getter' = [getter EXCEPT ![g] = [st |-> "done", key |-> k,
                                                result |-> cinfo_cache[k].info]]
            /\ UNCHANGED <<cinfo_cache, cinfo_probes>>
    /\ UNCHANGED <<invalidations, ipc, tokenVars, taskVars, blobVars, laterVars>>

(* probe_fn of g returns: the result becomes the entry, and g and every     *)
(* caller waiting for the key get it.                                       *)
ProbeDone(g, ok) ==
    /\ getter[g].st = "probing"
    /\ LET k == getter[g].key
           info == [probe |-> cinfo_probes[k], ok |-> ok]
       IN  /\ cinfo_cache' = [cinfo_cache EXCEPT ![k] =
                                 [st |-> "Cached", info |-> info]]
           /\ getter' = [h \in Getters |->
                  IF h = g \/ (getter[h].st = "waiting" /\ getter[h].key = k)
                  THEN [getter[h] EXCEPT !.st = "done", !.result = info]
                  ELSE getter[h]]
    /\ UNCHANGED <<cinfo_probes, invalidations, ipc, tokenVars, taskVars, blobVars, laterVars>>

(* The caller takes the result (FillCompilerInfoDone) and may ask again. *)
FillCompilerInfoDone(g) ==
    /\ getter[g].st = "done"
    /\ getter' = [getter EXCEPT ![g] = [st |-> "idle", key |-> "k1",
                                        result |-> NoCompilerInfo]]
    /\ UNCHANGED <<cinfo_cache, cinfo_probes, invalidations, ipc,
                   tokenVars, taskVars, blobVars, laterVars>>

(* Invalidate(key): the entry is dropped.  A key that is being probed has   *)
(* no entry yet.                                                            *)
Invalidate(k) ==
    /\ invalidations[k] < MaxInvalidate
    /\ invalidations' = [invalidations EXCEPT ![k] = @ + 1]
    /\ cinfo_cache' = [cinfo_cache EXCEPT ![k] =
                          IF @.st = "Probing" THEN @ ELSE NoEntry]
    /\ UNCHANGED <<cinfo_probes, getter, ipc, tokenVars, taskVars, blobVars, laterVars>>

NextCache ==
    \/ \E g \in Getters, k \in Keys : GetOrProbe(g, k)
    \/ \E g \in Getters, ok \in BOOLEAN : ProbeDone(g, ok)
    \/ \E g \in Getters : FillCompilerInfoDone(g)
    \/ \E k \in Keys : Invalidate(k)

-----------------------------------------------------------------------------
(* GomaIPC (goma_ipc.cc): one call from gomacc to the daemon.  Call() is    *)
(* CallAsync() followed by Wait(); Wait() is ReadResponse() and the checks   *)
(* on what it read.  ReadResponse() blocks in ReadWithTimeout, so each turn  *)
(* of its loop is a step.  OK is 0; FAIL, ERR_TIMEOUT and the channel's      *)
(* other errors are negative.                                                *)

Negative(e) == e # "OK"

(* SetError(err, error_message, status) *)
SetError(err, message, status) ==
    [status EXCEPT !.err = IF @ = "OK" THEN err ELSE @,
                   !.error_message = Append(@, message)]

(* A Status as the caller hands it in. *)
NewStatus(hc) ==
    [connect_success |-> FALSE, err |-> "OK", error_message |-> <<>>,
     http_return_code |-> 0, health_check_on_timeout |-> hc]

InitIpc ==
    \E hc \in BOOLEAN :
        ipc = [pc |-> "idle", chan |-> "null", peer |-> "unchecked",
               written |-> {}, timeout |-> "initial_timeout",
               response |-> "none", probes |-> 0, healthz |-> "none",
               ret |-> "none", body |-> "none", status |-> NewStatus(hc)]

(* CallAsync sending without looking at the peer. *)
CheckGomaIPCPeer_Skip(uid) == TRUE

(* CheckGomaIPCPeer(chan, nullptr): the peer runs as the same user. *)
CheckGomaIPCPeer(uid) == uid = "same_user"

(* CallAsync(path, req, status): connect, check the peer, send the request. *)
CallAsync(connect_ok, uid, send_ok) ==
    /\ ipc.pc = "idle"
    /\ LET st0 == [ipc.status EXCEPT !.connect_success = FALSE]
           st1 == [st0 EXCEPT !.connect_success = TRUE]
       IN  IF ~connect_ok
           THEN ipc' = [ipc EXCEPT !.pc = "called",
                           !.status = SetError("FAIL", "Failed to connect", st0)]
           ELSE IF ~CheckGomaIPCPeer(uid)
           THEN ipc' = [ipc EXCEPT !.pc = "called", !.peer = uid,
                           !.status = SetError("FAIL",
                                         "Peer is serving by other user?", st0)]
           ELSE IF ~send_ok
           THEN ipc' = [ipc EXCEPT !.pc = "called", !.peer = uid,
                           !.written = @ \cup {"chan"},
                           !.status = SetError("ERR", "Failed to send",
                                         SetError("ERR", "Failed to send request",
                                                  st1))]
           ELSE ipc' = [ipc EXCEPT !.pc = "called", !.peer = uid,
                           !.chan = "open",
                           !.written = @ \cup {"chan"},
                           !.status = st1]
    /\ UNCHANGED <<cacheVars, tokenVars, taskVars, blobVars, laterVars>>

(* Wait accepting a 200 without a body. *)
EmptyMessage_Never(body) == FALSE

(* body.size() == 0 *)
EmptyMessage(body) == body = "empty"

(* resp->ParseFromString(body): the empty string parses, as the message     *)
(* with no field set.                                                       *)
ParseFromString(body) == body # "garbage"

(* Wait() after ReadResponse() returned err, having read body. *)
WaitReturn(i, err, body) ==
    IF Negative(err)
    THEN [i EXCEPT !.pc = "done", !.ret = err, !.body = body,
                   !.status = SetError(err, "Failed to read response", @)]
    ELSE IF i.status.http_return_code # 200
    THEN [i EXCEPT !.pc = "done", !.ret = "FAIL", !.body = body,
                   !.status = SetError("FAIL", "Invalid HTTP response code", @)]
    ELSE IF EmptyMessage(body)
    THEN [i EXCEPT !.pc = "done", !.ret = "FAIL", !.body = body,
                   !.status = SetError("FAIL", "Empty message", @)]
    ELSE IF ~ParseFromString(body)
    THEN [i EXCEPT !.pc = "done", !.ret = "FAIL", !.body = body,
                   !.status = SetError("FAIL", "Failed to parse response body", @)]
    ELSE [i EXCEPT !.pc = "done", !.ret = "OK", !.body = body]

(* Wait(chan, resp, status) up to its first read. *)
Wait ==
    /\ ipc.pc = "called"
    /\ IF ipc.chan = "null"
       THEN ipc' = [ipc EXCEPT !.pc = "done",
                       !.ret = IF ipc.status.err # "OK" THEN ipc.status.err
                               ELSE "FAIL"]
       ELSE ipc' = [ipc EXCEPT !.pc = "reading",
                       !.timeout = "initial_timeout",
                       !.status = [@ EXCEPT !.http_return_code = 0]]
    /\ UNCHANGED <<cacheVars, tokenVars, taskVars, blobVars, laterVars>>

HealthzOutcomes ==
    {"connect_failed", "send_failed", "read_failed", "bad_response",
     "not_200", "healthy"}

(* What CheckHealthz(status) returns. *)
CheckHealthzReturn(outcome) ==
    CASE outcome = "healthy" -> "OK"
      [] outcome = "send_failed" -> "ERR"
      [] OTHER -> "FAIL"

(* CheckHealthz(status): a second channel, GET /healthz?pid=, one read. *)
CheckHealthz(i, outcome) ==
    [i EXCEPT !.probes = @ + 1,
              !.healthz = CheckHealthzReturn(outcome),
              !.written = IF outcome = "connect_failed" THEN @
                          ELSE @ \cup {"healthz_chan"},
              !.status =
                  CASE outcome = "healthy" -> @
                    [] outcome = "connect_failed" ->
                         SetError("FAIL", "Failed to connect", @)
                    [] outcome = "send_failed" ->
                         SetError("ERR", "Failed to send request", @)
                    [] outcome = "read_failed" ->
                         SetError("FAIL", "Error /healthz", @)
                    [] outcome = "bad_response" ->
                         SetError("FAIL", "Bad response /healthz", @)
                    [] OTHER -> SetError("FAIL", "not healthy?", @)]

(* ReadResponse() after its loop: the sanity check, header and body. *)
ReadResponseEnd(i, body) ==
    IF i.response = "header" /\ body = "short"
    THEN WaitReturn([i EXCEPT !.status =
                         SetError("FAIL", "broken response string", @)],
                    "FAIL", "none")
    ELSE WaitReturn(i, "OK", IF i.response = "header" \/ body # "short"
                             THEN body ELSE "empty")

(* One turn of ReadResponse()'s loop: ReadWithTimeout returned len.  What   *)
(* arrived is "short" (no complete header yet), "header" (the header and a   *)
(* part of the body it announces) or a whole response with its body; code    *)
(* is the status ParseHttpResponse has found, 0 if none.                     *)
ReadWithTimeout(len, arrived, code, outcome) ==
    /\ ipc.pc = "reading"
    /\ CASE len = "eof" ->
              ipc' = ReadResponseEnd(
                        [ipc EXCEPT !.status =
                             SetError("FAIL", "Unexpected end-of-file", @)],
                        "short")
         [] len = "data" /\ ipc.response = "header" ->
              /\ arrived \in {"header", "garbage", "message"}
              /\ IF arrived = "header"
                 THEN ipc' = [ipc EXCEPT !.timeout = "read_timeout"]
                 ELSE ipc' = ReadResponseEnd(
                                [ipc EXCEPT !.timeout = "read_timeout"], arrived)
         [] len = "data" /\ ipc.response # "header" ->
              LET i == [ipc EXCEPT !.timeout = "read_timeout",
                                   !.status = [@ EXCEPT !.http_return_code = code]]
              IN  CASE arrived = "short" ->
                         ipc' = [i EXCEPT !.response = "partial"]
                    [] arrived = "header" ->
                         /\ code # 0
                         /\ ipc' = [i EXCEPT !.response = "header"]
                    [] OTHER ->
                         /\ code # 0
                         /\ ipc' = ReadResponseEnd(i, arrived)
         [] len = "ERR_TIMEOUT" /\ ipc.response = "none"
                /\ ipc.status.health_check_on_timeout ->
              /\ ipc.probes < MaxProbes
              /\ ipc' = [CheckHealthz(ipc, outcome) EXCEPT
                            !.timeout = "check_timeout"]
         [] OTHER ->
              ipc' = WaitReturn(ipc, len, "none")
    /\ UNCHANGED <<cacheVars, tokenVars, taskVars, blobVars, laterVars>>

HttpCodes == {0, 200, 500}

NextIpc ==
    \/ \E connect_ok \in BOOLEAN, uid \in {"same_user", "other_user"},
          send_ok \in BOOLEAN : CallAsync(connect_ok, uid, send_ok)
    \/ Wait
    \/ \E len \in {"eof", "data", "ERR_TIMEOUT", "ERR"},
          arrived \in {"short", "header", "empty", "garbage", "message"},
          code \in HttpCodes, outcome \in HealthzOutcomes :
            ReadWithTimeout(len, arrived, code, outcome)

-----------------------------------------------------------------------------------------------------------------------------------------
(* GetRealExecutablePath (util.cc), the PATH search: cmd holds no path      *)
(* separator, and every directory of path_env is tried in order.  What a    *)
(* directory holds under the name cmd is a candidate: the file it is, and   *)
(* what running it with no argument gives.                                  *)

MaxPathDirs == 3

(* access(candidate_path, X_OK) fails: "none"; FileId(candidate_path) is    *)
(* not valid: "invalid"; the file is the running gomacc: "gomacc", which    *)
(* dies with "unknown GOMA_ parameter"; any other file: "other".            *)
Candidates ==
    {[file |-> "none", status |-> 0, goma |-> FALSE],
     [file |-> "invalid", status |-> 0, goma |-> FALSE],
     [file |-> "gomacc", status |-> 1, goma |-> TRUE]}
    \cup [file : {"other"}, status : {0, 1}, goma : BOOLEAN]

PathEnvs == UNION {[1..n -> Candidates] : n \in 1..MaxPathDirs}

InitPath ==
    \E vc \in BOOLEAN, given \in BOOLEAN, path_env \in PathEnvs,
       pathext_env \in {"", ".EXE"} :
        gre = [vc |-> vc, gomacc_fileid |-> given, path_env |-> path_env,
               pathext_env |-> pathext_env, pos |-> 1, pc |-> "loop",
               ret |-> FALSE, local_executable_path |-> 0,
               no_goma_path_env |-> 1, probes |-> <<>>, skipped |-> {}]

(* The environment IsGomacc hands to ReadCommandOutput: the names of its    *)
(* variables, the flag and its value, the PATH (path_env from its pos-th    *)
(* directory on) and the PATHEXT.                                           *)
ProbeEnv(pos, pathext) ==
    [names |-> {"GOMA_WILL_FAIL_WITH_UKNOWN_FLAG", "PATH"}
                  \cup (IF pathext # "" THEN {"PATHEXT"} ELSE {}),
     flag |-> "GOMA_WILL_FAIL_WITH_UKNOWN_FLAG", value |-> "true",
     path_from |-> pos, pathext |-> pathext]

(* IsGomacc taking any output with "GOMA" for gomacc's. *)
ProbeSaysGomacc_AnyStatus(c) == c.goma

(* (status == 1) && (out.find("GOMA") != string::npos) *)
ProbeSaysGomacc(c) == c.status = 1 /\ c.goma

(* IsGomacc(candidate_path, path, pathext, cwd) *)
IsGomacc(c, vc) == IF vc THEN FALSE ELSE ProbeSaysGomacc(c)

(* The ReadCommandOutput calls after IsGomacc(c, ...) of the i-th candidate. *)
Probed(g, i, from) ==
    IF g.vc THEN g.probes
    ELSE Append(g.probes, [candidate |-> i, argv |-> <<i>>,
                           env |-> ProbeEnv(from, g.pathext_env)])

(* path_env.substr(pos): the skipped directory is kept. *)
PathAfter_FromDir(pos) == pos

(* path_env.substr(next_pos): path_env from the directory after the pos-th. *)
PathAfter(pos) == pos + 1

(* One turn of the loop over path_env, or the return after it; skipped      *)
(* records the directories passed over as holding the wrapper.              *)
SearchDir ==
    /\ gre.pc = "loop"
    /\ IF gre.pos > Len(gre.path_env)
       THEN gre' = [gre EXCEPT !.pc = "done", !.ret = FALSE]
       ELSE LET c == gre.path_env[gre.pos]
                last == gre.pos = Len(gre.path_env)   \* next_pos == npos
                next == [gre EXCEPT !.pos = @ + 1]
            IN  IF c.file \in {"none", "invalid"}
                THEN gre' = next
                ELSE IF gre.gomacc_fileid /\ c.file = "gomacc" /\ ~last
                THEN gre' = [next EXCEPT !.no_goma_path_env = PathAfter(gre.pos),
                                         !.skipped = @ \cup {gre.pos}]
                ELSE IF gre.gomacc_fileid /\ IsGomacc(c, gre.vc)
                THEN gre' = [next EXCEPT
                               !.probes = Probed(gre, gre.pos, gre.pos),
                               !.skipped = @ \cup {gre.pos},
                               !.no_goma_path_env =
                                   IF ~last THEN PathAfter(gre.pos) ELSE @]
                ELSE gre' = [gre EXCEPT
                               !.probes = IF gre.gomacc_fileid
                                          THEN Probed(gre, gre.pos, gre.pos)
                                          ELSE @,
                               !.pc = "done", !.ret = TRUE,
                               !.local_executable_path = gre.pos]
    /\ UNCHANGED notPathVars

NextPath == SearchDir

-----------------------------------------------------------------------------
(* CompileTask::Ref / Deref (compile_task.h).  The task is created with its *)
(* self-reference; InputFileTask and OutputFileTask workers and the status  *)
(* page take references of their own.                                       *)

MaxWorkers == 2
MaxDumpers == 2

InitRef ==
    \E with_local \in BOOLEAN :
        ref = [refcnt_ |-> 1, self |-> TRUE, workers |-> 0, dumpers |-> 0,
               remote |-> "running",
               local |-> IF with_local THEN "running" ELSE "none",
               reply_sent |-> FALSE, done |-> FALSE, deleted |-> FALSE,
               started |-> 0, dumped_deleted |-> FALSE]

(* Ref() *)
Ref(r) == [r EXCEPT !.refcnt_ = @ + 1]

(* Deref(): the task is deleted when the count reaches zero. *)
Deref(r) == [r EXCEPT !.refcnt_ = @ - 1, !.deleted = (r.refcnt_ - 1 = 0)]

(* Done() dropping the self-reference without waiting for the reply. *)
Settled_NoReply(r) == r.remote # "running" /\ r.local # "running"

(* Both branches have settled or been cancelled and the reply was sent. *)
Settled(r) ==
    r.remote # "running" /\ r.local # "running" /\ r.reply_sent

(* An InputFileTask or OutputFileTask starts for the task. *)
StartFileTask ==
    /\ ~ref.deleted /\ ~ref.done
    /\ ref.remote = "running"
    /\ ref.workers < MaxWorkers /\ ref.started < MaxWorkers + 1
    /\ ref' = [Ref(ref) EXCEPT !.workers = @ + 1, !.started = @ + 1]
    /\ UNCHANGED notRefVars

(* The file task has run its callback and lets go of the task. *)
FileTaskDone ==
    /\ ref.workers > 0
    /\ ref' = Deref([ref EXCEPT !.workers = @ - 1])
    /\ UNCHANGED notRefVars

(* A branch settles: it finished, failed or was cancelled.  File tasks of   *)
(* an aborted remote branch may still be running.                           *)
Settle(branch) ==
    /\ ~ref.deleted
    /\ ref[branch] = "running"
    /\ ref' = [ref EXCEPT ![branch] = "settled"]
    /\ UNCHANGED notRefVars

(* ReplyResponse: the reply goes out once a branch has a result. *)
SendReply ==
    /\ ~ref.deleted /\ ~ref.reply_sent
    /\ ref.remote = "settled" \/ ref.local = "settled"
    /\ ref' = [ref EXCEPT !.reply_sent = TRUE]
    /\ UNCHANGED notRefVars

(* Done(): the self-reference is dropped. *)
DropSelfReference ==
    /\ ~ref.deleted /\ ref.self
    /\ Settled(ref)
    /\ ref' = Deref([ref EXCEPT !.self = FALSE, !.done = TRUE])
    /\ UNCHANGED notRefVars

(* The status page finds the task in the task lists (under the service's    *)
(* lock, so while the self-reference is held) and takes a reference.        *)
StatusRef ==
    /\ ~ref.deleted /\ ref.self
    /\ ref.dumpers < MaxDumpers
    /\ ref' = [Ref(ref) EXCEPT !.dumpers = @ + 1]
    /\ UNCHANGED notRefVars

(* DumpToJson by a holder of a reference. *)
DumpToJson ==
    /\ ref.dumpers > 0
    /\ ref' = [ref EXCEPT !.dumped_deleted = @ \/ ref.deleted]
    /\ UNCHANGED notRefVars

(* The status page lets go of the task. *)
StatusDeref ==
    /\ ref.dumpers > 0
    /\ ref' = Deref([ref EXCEPT !.dumpers = @ - 1])
    /\ UNCHANGED notRefVars

NextRef ==
    \/ StartFileTask
    \/ FileTaskDone
    \/ \E branch \in {"remote", "local"} : Settle(branch)
    \/ SendReply
    \/ DropSelfReference
    \/ StatusRef
    \/ DumpToJson
    \/ StatusDeref

-----------------------------------------------------------------------------
(* The token members of GoogleOAuth2AccessTokenRefreshTask, statement by    *)
(* statement (oauth2_token.cc): what Done() writes under mu_, what          *)
(* SetOAuth2Config() writes, and GetAccount().  The n-th token the issuer   *)
(* hands out is n, its expiry is n, the account looked up with it is n;     *)
(* 0 is the empty string, and for token_expires_at_ a time not after now    *)
(* (the initial 0, or the time(nullptr) of SetOAuth2Config).                *)

MaxTokens == 2
MaxSetCalls == 1
NumAccountCallers == 2
MaxAccountCalls == 3

AccountCallers == 1..NumAccountCallers

IdleCaller == [pc |-> "idle", access_token |-> 0, email |-> 0, ret |-> 0,
               from_memo |-> FALSE]

InitMem ==
    mem = [token_type_ |-> "", access_token_ |-> 0, token_expires_at_ |-> 0,
           account_email_ |-> 0, mu_ |-> "free",
           done |-> "idle", issued |-> 0,
           set |-> "idle", set_calls |-> 0,
           acct |-> [a \in AccountCallers |-> IdleCaller], calls |-> 0,
           lookups |-> [n \in 1..MaxTokens |-> 0]]

(* Done(): AUTOLOCK(lock, &mu_) of its second block. *)
DoneLock ==
    /\ mem.done = "idle" /\ mem.mu_ = "free"
    /\ mem.issued < MaxTokens
    /\ mem' = [mem EXCEPT !.mu_ = "done", !.done = "locked"]
    /\ UNCHANGED notMemVars

(* ParseOAuth2AccessTokenUnlocked up to the return of ParseResponseBody:    *)
(* the HTTP status was an error, the body did not parse, or it parsed and   *)
(* token_type_ and access_token_ hold the new token; account_email_ is      *)
(* cleared only with a body that did not parse.                             *)
ParseResponseBody(outcome) ==
    /\ mem.done = "locked"
    /\ CASE outcome = "http_failed" ->
              mem' = [mem EXCEPT !.mu_ = "free", !.done = "idle"]
         [] outcome = "unparseable" ->
              mem' = [mem EXCEPT !.token_type_ = "", !.access_token_ = 0,
                                 !.account_email_ = 0,
                                 !.mu_ = "free", !.done = "idle"]
         [] OTHER ->
              mem' = [mem EXCEPT !.token_type_ = "Bearer",
                                 !.access_token_ = mem.issued + 1,
                                 !.issued = @ + 1, !.done = "parsed"]
    /\ UNCHANGED notMemVars

(* token_expires_at_ = now + expires_in - kOAuthExpireTimeMarginInSec, and  *)
(* the end of Done()'s locked block.                                        *)
StoreTokenExpiresAt ==
    /\ mem.done = "parsed"
    /\ mem' = [mem EXCEPT !.token_expires_at_ = mem.issued,
                          !.mu_ = "free", !.done = "idle"]
    /\ UNCHANGED notMemVars

(* SetOAuth2Config(), one assignment at a time, the config having taken the *)
(* new value.  It does not take mu_: its statements run whoever holds it.   *)
SetOAuth2ConfigStatement ==
    /\ CASE mem.set = "idle" ->
              /\ mem.set_calls < MaxSetCalls
              /\ mem' = [mem EXCEPT !.token_expires_at_ = 0, !.set = "l153",
                                    !.set_calls = @ + 1]
         [] mem.set = "l153" ->
              mem' = [mem EXCEPT !.token_type_ = "", !.set = "l154"]
         [] mem.set = "l154" ->
              mem' = [mem EXCEPT !.access_token_ = 0, !.set = "l155"]
         [] OTHER ->
              mem' = [mem EXCEPT !.account_email_ = 0, !.set = "idle"]
    /\ UNCHANGED notMemVars

(* GetAccount(), its first locked block. *)
GetAccountBegin(a) ==
    /\ mem.acct[a].pc = "idle" /\ mem.mu_ = "free"
    /\ mem.calls < MaxAccountCalls
    /\ mem' = [mem EXCEPT !.calls = @ + 1, !.acct[a] =
                  IF mem.access_token_ = 0
                  THEN [IdleCaller EXCEPT !.pc = "returned"]
                  ELSE IF mem.account_email_ # 0
                  THEN [IdleCaller EXCEPT !.pc = "returned",
                                          !.access_token = mem.access_token_,
                                          !.ret = mem.account_email_,
                                          !.from_memo = TRUE]
                  ELSE [IdleCaller EXCEPT !.pc = "lookup",
                                          !.access_token = mem.access_token_]]
    /\ UNCHANGED notMemVars

(* GetAccount(): client.Do() on the token-info endpoint and the parse of    *)
(* its answer.                                                              *)
TokenInfoLookup(a, answer) ==
    /\ mem.acct[a].pc = "lookup"
    /\ mem' = CASE answer \in {"err", "not200"} ->
                     [mem EXCEPT !.acct[a] = [@ EXCEPT !.pc = "returned"]]
                [] answer = "no_email" ->
                     [mem EXCEPT !.acct[a] = [@ EXCEPT !.pc = "store"]]
                [] OTHER ->
                     [mem EXCEPT !.acct[a] =
                                    [@ EXCEPT !.pc = "store",
                                              !.email =
                                                  mem.acct[a].access_token],
                                 !.lookups[mem.acct[a].access_token] = @ + 1]
    /\ UNCHANGED notMemVars

(* GetAccount(), its last locked block and the return. *)
GetAccountStore(a) ==
    /\ mem.acct[a].pc = "store" /\ mem.mu_ = "free"
    /\ mem' = [mem EXCEPT !.account_email_ = mem.acct[a].email,
                          !.acct[a] = [@ EXCEPT !.pc = "returned",
                                                !.ret = mem.acct[a].email]]
    /\ UNCHANGED notMemVars

(* The caller has its answer and may call again. *)
GetAccountReturned(a) ==
    /\ mem.acct[a].pc = "returned"
    /\ mem' = [mem EXCEPT !.acct[a] = IdleCaller]
    /\ UNCHANGED notMemVars

NextMem ==
    \/ DoneLock
    \/ \E outcome \in {"http_failed", "unparseable", "parsed"} :
          ParseResponseBody(outcome)
    \/ StoreTokenExpiresAt
    \/ SetOAuth2ConfigStatement
    \/ \E a \in AccountCallers : GetAccountBegin(a)
    \/ \E a \in AccountCallers,
          answer \in {"err", "not200", "no_email", "email"} :
            TokenInfoLookup(a, answer)
    \/ \E a \in AccountCallers : GetAccountStore(a)
    \/ \E a \in AccountCallers : GetAccountReturned(a)

-----------------------------------------------------------------------------
(* Command classification: GCCFlags::IsGCCCommand, GCCFlags::IsClangCommand, *)
(* VCFlags::IsVCCommand, VCFlags::IsClangClCommand,                          *)
(* JavacFlags::IsJavacCommand and ClangTidyFlags::IsClangTidyCommand.  The   *)
(* predicates are written from their description; the commands and the      *)
(* families expected of them are those of CompilerFlagsTest.                 *)

(* struct TestCast testcases[]: a command and the families it belongs to. *)
testcases == <<
    [command |-> "gcc",
     expected |-> {"kGCC"}],
    [command |-> "/usr/bin/gcc",
     expected |-> {"kGCC"}],
    [command |-> "x86_64-linux-gnu-gcc",
     expected |-> {"kGCC"}],
    [command |-> "g++",
     expected |-> {"kGCC"}],
    [command |-> "/usr/bin/g++",
     expected |-> {"kGCC"}],
    [command |-> "x86_64-linux-gnu-g++",
     expected |-> {"kGCC"}],
    [command |-> "c++",
     expected |-> {"kGCC"}],
    [command |-> "/usr/bin/c++",
     expected |-> {"kGCC"}],
    [command |-> "cc",
     expected |-> {"kGCC"}],
    [command |-> "/usr/bin/cc",
     expected |-> {"kGCC"}],
    [command |-> "i586-mingw32msvc-cc",
     expected |-> {"kGCC"}],
    [command |-> "g++-4.8",
     expected |-> {"kGCC"}],
    [command |-> "arm-gnueabihf-gcc-4.9",
     expected |-> {"kGCC"}],
    [command |-> "nacl-gcc",
     expected |-> {"kGCC"}],
    [command |-> "i686-nacl-gcc",
     expected |-> {"kGCC"}],
    [command |-> "nacl-gcc.exe",
     expected |-> {"kGCC"}],
    [command |-> "clang",
     expected |-> {"kGCC", "kClang"}],
    [command |-> "clang.exe",
     expected |-> {"kGCC", "kClang"}],
    [command |-> "/usr/local/bin/clang",
     expected |-> {"kGCC", "kClang"}],
    [command |-> "clang++",
     expected |-> {"kGCC", "kClang"}],
    [command |-> "/usr/local/bin/clang++",
     expected |-> {"kGCC", "kClang"}],
    [command |-> "pnacl-clang",
     expected |-> {"kGCC", "kClang"}],
    [command |-> "pnacl-clang++",
     expected |-> {"kGCC", "kClang"}],
    [command |-> "clang++-3.7",
     expected |-> {"kGCC", "kClang"}],
    [command |-> "/usr/local/google/home/jlebar/bin/clang++-3.7",
     expected |-> {"kGCC", "kClang"}],
    [command |-> "armv7a-cros-linux-gnueabi-clang++",
     expected |-> {"kGCC", "kClang"}],
    [command |-> "/usr/bin/local/clang-tidy/clang",
     expected |-> {"kGCC", "kClang"}],
    [command |-> "clang-check",
     expected |-> {}],
    [command |-> "clang-tblgen",
     expected |-> {}],
    [command |-> "clang-format",
     expected |-> {}],
    [command |-> "clang-tidy-diff",
     expected |-> {}],
    [command |-> "cl",
     expected |-> {"kVC"}],
    [command |-> "CL",
     expected |-> {"kVC"}],
    [command |-> "cl.exe",
     expected |-> {"kVC"}],
    [command |-> "CL.EXE",
     expected |-> {"kVC"}],
    [command |-> "cL.eXe",
     expected |-> {"kVC"}],
    [command |-> "Cl.Exe",
     expected |-> {"kVC"}],
    [command |-> "C:\\VS10\\VC\\bin\\cl.exe",
     expected |-> {"kVC"}],
    [command |-> "D:\\Program Files\\Microsoft Visual Studio 10\\VC\\bin\\Cl.Exe",
     expected |-> {"kVC"}],
    [command |-> "D:\\VS9\\cl.exe\\cl.exe",
     expected |-> {"kVC"}],
    [command |-> "D:\\VS9\\cl.exe\\cl.exe.manifest",
     expected |-> {}],
    [command |-> "D:\\VS9\\cl.exe\\",
     expected |-> {}],
    [command |-> "cl.exe.manifest",
     expected |-> {}],
    [command |-> "clang-cl",
     expected |-> {"kClangCl"}],
    [command |-> "clang-cl.exe",
     expected |-> {"kClangCl"}],
    [command |-> "CLANG-CL.EXE",
     expected |-> {"kClangCl"}],
    [command |-> "/usr/local/bin/clang-cl",
     expected |-> {"kClangCl"}],
    [command |-> "/usr/local/bin/clang-cl.exe",
     expected |-> {"kClangCl"}],
    [command |-> "C:\\clang-cl",
     expected |-> {"kClangCl"}],
    [command |-> "C:\\clang-cl.exe",
     expected |-> {"kClangCl"}],
    [command |-> "D:\\example\\clang-cl.exe",
     expected |-> {"kClangCl"}],
    [command |-> "D:\\EXAMPLE\\CLANG-CL.EXE",
     expected |-> {"kClangCl"}],
    [command |-> "javac",
     expected |-> {"kJavac"}],
    [command |-> "/usr/bin/javac",
     expected |-> {"kJavac"}],
    [command |-> "/usr/bin/javaco/yes",
     expected |-> {}],
    [command |-> "clang-tidy",
     expected |-> {"kClangTidy"}],
    [command |-> "/usr/bin/local/clang-tidy",
     expected |-> {"kClangTidy"}],
    [command |-> "nacl.exe",
     expected |-> {}],
    [command |-> "D:\\nacl_sdk\\pepper_18\\toolchain\\win_x86_newlib\\bin\\nacl.exe",
     expected |-> {}],
    [command |-> "/usr/lib/gcc/bin/ar",
     expected |-> {}]
>>

(* the family bits of the test *)
Families == {"kGCC", "kClang", "kVC", "kClangCl", "kJavac", "kClangTidy"}

UpperCase == "ABCDEFGHIJKLMNOPQRSTUVWXYZ"
LowerCase == "abcdefghijklmnopqrstuvwxyz"
VersionChars == {"0", "1", "2", "3", "4", "5", "6", "7", "8", "9", "."}
PathSeparators == {"/", "\\"}

\* the i-th character of s
CharAt(s, i) == SubSeq(s, i, i)

ToLowerChar(c) ==
    IF \E i \in 1..Len(UpperCase) : CharAt(UpperCase, i) = c
    THEN CharAt(LowerCase, CHOOSE i \in 1..Len(UpperCase) : CharAt(UpperCase, i) = c)
    ELSE c

RECURSIVE ToLower(_)
ToLower(s) == IF s = "" THEN "" ELSE ToLowerChar(CharAt(s, 1)) \o ToLower(Tail(s))

HasSuffix(s, suffix) ==
    Len(s) >= Len(suffix) /\ SubSeq(s, Len(s) - Len(suffix) + 1, Len(s)) = suffix

(* The whole command taken for its base name. *)
Basename_WholePath(command) == command

(* The base name of a command: what follows its last path separator. *)
Basename(command) ==
    LET seps == {i \in 1..Len(command) : CharAt(command, i) \in PathSeparators}
        last == IF seps = {} THEN 0 ELSE CHOOSE i \in seps : \A j \in seps : j <= i
    IN  SubSeq(command, last + 1, Len(command))

(* The base name without its ".exe". *)
Stem(command) ==
    LET base == Basename(command)
    IN  IF HasSuffix(base, ".exe") THEN SubSeq(base, 1, Len(base) - 4) ELSE base

IsVersion(s) == s # "" /\ \A i \in 1..Len(s) : CharAt(s, i) \in VersionChars

(* stem is name, with an optional target prefix ("x86_64-linux-gnu-") and an *)
(* optional version suffix ("-4.8").                                         *)
NamedLike(stem, name) ==
    \E i \in 0..Len(stem), j \in 0..Len(stem) :
        /\ i <= j
        /\ SubSeq(stem, i + 1, j) = name
        /\ (i = 0 \/ CharAt(stem, i) = "-")
        /\ \/ j = Len(stem)
           \/ /\ CharAt(stem, j + 1) = "-"
              /\ IsVersion(SubSeq(stem, j + 2, Len(stem)))

IsClangCommand(command) ==
    \E name \in {"clang", "clang++"} : NamedLike(Stem(command), name)

IsGCCCommand(command) ==
    \/ IsClangCommand(command)
    \/ \E name \in {"gcc", "g++", "cc", "c++"} : NamedLike(Stem(command), name)

IsVCCommand(command) == ToLower(Basename(command)) \in {"cl", "cl.exe"}

IsClangClCommand(command) ==
    ToLower(Basename(command)) \in {"clang-cl", "clang-cl.exe"}

IsJavacCommand(command) == Stem(command) = "javac"

IsClangTidyCommand(command) == Stem(command) = "clang-tidy"

(* The families whose predicate holds of a command. *)
Classification(command) ==
    {f \in Families :
        \/ f = "kGCC" /\ IsGCCCommand(command)
        \/ f = "kClang" /\ IsClangCommand(command)
        \/ f = "kVC" /\ IsVCCommand(command)
        \/ f = "kClangCl" /\ IsClangClCommand(command)
        \/ f = "kJavac" /\ IsJavacCommand(command)
        \/ f = "kClangTidy" /\ IsClangTidyCommand(command)}

(* One of the test's commands, not yet classified. *)
InitClass ==
    \E tc \in 1..Len(testcases) :
        cls = [tc |-> tc, command |-> testcases[tc].command,
               classified |-> FALSE, families |-> {}]

(* The six predicates are asked about the command. *)
CommandClassification ==
    /\ ~cls.classified
    /\ cls' = [cls EXCEPT !.classified = TRUE,
                          !.families = Classification(cls.command)]
    /\ UNCHANGED notClassVars

NextClass == CommandClassification

-----------------------------------------------------------------------------
(* ElfDepParser::ParseReadElf(content, &libs, &rpaths): reads the output of *)
(* "readelf -d".  The parser is written from its description; the example  *)
(* and what is expected of it are those of ElfDepParserTest.                *)

\* entries of a generated dynamic section
MaxEntries == 3

(* kExampleOutput *)
kExampleOutput ==
    "Dynamic section at offset 0x1d91b10 contains 31 entries:\n" \o
    "  Tag        Type                         Name/Value\n" \o
    " 0x0000000000000001 (NEEDED)             Shared library: " \o
        "[libLLVM-8svn.so]\n" \o
    " 0x0000000000000001 (NEEDED)             Shared library: " \o
        "[libc++.so.1]\n" \o
    " 0x0000000000000001 (NEEDED)             Shared library: " \o
        "[libc++abi.so.1]\n" \o
    " 0x0000000000000001 (NEEDED)             Shared library: " \o
        "[libm.so.6]\n" \o
    " 0x0000000000000001 (NEEDED)             Shared library: " \o
        "[libc.so.6]\n" \o
    " 0x000000000000000f (RPATH)              Library rpath: " \o
        "[$ORIGIN/../lib64]\n" \o
    " 0x000000000000000c (INIT)               0x632738\n" \o
    " 0x000000000000000d (FINI)               0x1c155d4\n" \o
    " 0x0000000000000019 (INIT_ARRAY)         0x22939d8\n" \o
    " 0x000000000000001b (INIT_ARRAYSZ)       40 (bytes)\n" \o
    " 0x000000000000001a (FINI_ARRAY)         0x2293a00\n" \o
    " 0x000000000000001c (FINI_ARRAYSZ)       8 (bytes)\n" \o
    " 0x000000006ffffef5 (GNU_HASH)           0x400298\n" \o
    " 0x0000000000000005 (STRTAB)             0x48ec28\n" \o
    " 0x0000000000000006 (SYMTAB)             0x41c280\n" \o
    " 0x000000000000000a (STRSZ)              1561579 (bytes)\n" \o
    " 0x000000000000000b (SYMENT)             24 (bytes)\n" \o
    " 0x0000000000000015 (DEBUG)              0x0\n" \o
    " 0x0000000000000003 (PLTGOT)             0x2391d50\n" \o
    " 0x0000000000000002 (PLTRELSZ)           144 (bytes)\n" \o
    " 0x0000000000000014 (PLTREL)             RELA\n" \o
    " 0x0000000000000017 (JMPREL)             0x6326a8\n" \o
    " 0x0000000000000007 (RELA)               0x615968\n" \o
    " 0x0000000000000008 (RELASZ)             118080 (bytes)\n" \o
    " 0x0000000000000009 (RELAENT)            24 (bytes)\n" \o
    " 0x0000000000000018 (BIND_NOW)           \n" \o
    " 0x000000006ffffffb (FLAGS_1)            Flags: NOW\n" \o
    " 0x000000006ffffffe (VERNEED)            0x6158e8\n" \o
    " 0x000000006fffffff (VERNEEDNUM)         3\n" \o
    " 0x000000006ffffff0 (VERSYM)             0x60c014\n" \o
    " 0x0000000000000000 (NULL)               0x0\n"

(* expected_libs and expected_rpaths of the test *)
expected_libs ==
    <<"libLLVM-8svn.so", "libc++.so.1", "libc++abi.so.1", "libm.so.6", "libc.so.6">>
expected_rpaths == <<"$ORIGIN/../lib64">>

(* Entries of a dynamic section as readelf prints them: the tag, the type   *)
(* and the Name/Value column.                                               *)
DynamicEntries == {
    [tag |-> "0x0000000000000001", type |-> "NEEDED",
     label |-> "Shared library: ", name |-> "libc.so.6", bracketed |-> TRUE],
    [tag |-> "0x0000000000000001", type |-> "NEEDED",
     label |-> "Shared library: ", name |-> "libc++.so.1", bracketed |-> TRUE],
    [tag |-> "0x000000000000000f", type |-> "RPATH",
     label |-> "Library rpath: ", name |-> "$ORIGIN/../lib64", bracketed |-> TRUE],
    [tag |-> "0x000000000000000e", type |-> "SONAME",
     label |-> "Library soname: ", name |-> "libfoo.so", bracketed |-> TRUE],
    [tag |-> "0x000000000000000c", type |-> "INIT",
     label |-> "", name |-> "0x632738", bracketed |-> FALSE] }

RECURSIVE Spaces(_)
Spaces(n) == IF n <= 0 THEN "" ELSE " " \o Spaces(n - 1)

(* One line of the listing: " <tag> (<TYPE>)<padding><Name/Value>\n". *)
PrintEntry(e) ==
    " " \o e.tag \o " (" \o e.type \o ")" \o Spaces(19 - Len(e.type))
        \o e.label
        \o (IF e.bracketed THEN "[" \o e.name \o "]" ELSE e.name) \o "\n"

RECURSIVE PrintEntries(_)
PrintEntries(es) ==
    IF es = <<>> THEN "" ELSE PrintEntry(Head(es)) \o PrintEntries(Tail(es))

(* The listing readelf prints for a dynamic section with the entries es. *)
PrintDynamicSection(es) ==
    "Dynamic section at offset 0x1d91b10 contains 3 entries:\n"
        \o "  Tag        Type                         Name/Value\n"
        \o PrintEntries(es)

RECURSIVE SeqsUpTo(_, _)
SeqsUpTo(S, n) ==
    IF n = 0 THEN {<<>>}
    ELSE LET shorter == SeqsUpTo(S, n - 1)
         IN  shorter \cup {Append(es, e) : es \in shorter, e \in S}

RECURSIVE NamesOf(_, _)
NamesOf(es, type) ==
    IF es = <<>> THEN <<>>
    ELSE (IF Head(es).type = type THEN <<Head(es).name>> ELSE <<>>)
             \o NamesOf(Tail(es), type)

(* The text given to ParseReadElf and what its entries are. *)
ElfInputs ==
    {[content |-> kExampleOutput, libs |-> expected_libs, rpaths |-> expected_rpaths]}
    \cup {[content |-> PrintDynamicSection(es), libs |-> NamesOf(es, "NEEDED"),
           rpaths |-> NamesOf(es, "RPATH")] : es \in SeqsUpTo(DynamicEntries, MaxEntries)}

\* the first position of sub in s, 0 when it does not occur
IndexOf(s, sub) ==
    LET at == {i \in 1..(Len(s) - Len(sub) + 1) : SubSeq(s, i, i + Len(sub) - 1) = sub}
    IN  IF at = {} THEN 0 ELSE CHOOSE i \in at : \A j \in at : i <= j

RECURSIVE SplitLines(_)
SplitLines(content) ==
    IF content = "" THEN <<>>
    ELSE LET n == IndexOf(content, "\n")
         IN  IF n = 0 THEN <<content>>
             ELSE <<SubSeq(content, 1, n - 1)>>
                      \o SplitLines(SubSeq(content, n + 1, Len(content)))

(* The text between "[" and the "]" that follows it. *)
GetContentInBrackets(line) ==
    LET open == IndexOf(line, "[")
        rest == SubSeq(line, open + 1, Len(line))
        close == IndexOf(rest, "]")
    IN  IF open = 0 \/ close = 0
        THEN [ok |-> FALSE, content |-> ""]
        ELSE [ok |-> TRUE, content |-> SubSeq(rest, 1, close - 1)]

(* A parser that takes the bracketed value of every line. *)
EntryType_Any(line, type) == TRUE

(* Whether a line is the entry of the given type. *)
EntryType(line, type) == IndexOf(line, "(" \o type \o ")") # 0

RECURSIVE ParseLines(_, _)
ParseLines(lines, acc) ==
    IF lines = <<>> \/ ~acc.ret THEN acc
    ELSE LET line == Head(lines)
             got == GetContentInBrackets(line)
         IN  IF EntryType(line, "NEEDED")
             THEN ParseLines(Tail(lines),
                     IF got.ok THEN [acc EXCEPT !.libs = Append(@, got.content)]
                     ELSE [acc EXCEPT !.ret = FALSE])
             ELSE IF EntryType(line, "RPATH")
             THEN ParseLines(Tail(lines),
                     IF got.ok THEN [acc EXCEPT !.rpaths = Append(@, got.content)]
                     ELSE [acc EXCEPT !.ret = FALSE])
             ELSE ParseLines(Tail(lines), acc)

(* The return value, libs and rpaths of ParseReadElf(content, ...). *)
ParseReadElfResult(content) ==
    ParseLines(SplitLines(content), [ret |-> TRUE, libs |-> <<>>, rpaths |-> <<>>])

InitElf ==
    \E input \in ElfInputs :
        elf = [input |-> input, called |-> FALSE, ret |-> FALSE,
               libs |-> <<>>, rpaths |-> <<>>]

ParseReadElf ==
    /\ ~elf.called
    /\ LET r == ParseReadElfResult(elf.input.content)
       IN  elf' = [elf EXCEPT !.called = TRUE, !.ret = r.ret,
                              !.libs = r.libs, !.rpaths = r.rpaths]
    /\ UNCHANGED notElfVars

NextElf == ParseReadElf

-----------------------------------------------------------------------------
(* file_dir.cc: RecursivelyDelete(name).  The tree under name has entries   *)
(* called "a" and "b", MaxDepth levels deep; a path is the sequence of the  *)
(* entry names that lead to it from name.                                   *)

MaxDepth == 2
EntryNames == <<"a", "b">>

Paths == UNION {[1..n -> {EntryNames[i] : i \in 1..Len(EntryNames)}] : n \in 0..MaxDepth}

\* the paths below path
Below(path) ==
    {q \in Paths : Len(q) > Len(path) /\ SubSeq(q, 1, Len(path)) = path}

(* What can be at path and below it: nothing, a regular file, or a         *)
(* directory with what can be at each of its two entries.                  *)
RECURSIVE SubTrees(_)
SubTrees(path) ==
    LET nothing == [q \in Below(path) |-> "none"]
    IN  {(path :> "none") @@ nothing, (path :> "file") @@ nothing}
        \cup IF Len(path) = MaxDepth THEN {(path :> "dir")}
             ELSE {(path :> "dir") @@ first @@ second :
                      first \in SubTrees(Append(path, EntryNames[1])),
                      second \in SubTrees(Append(path, EntryNames[2]))}

(* What is at each path: something is in a directory only. *)
Trees == SubTrees(<<>>)

(* Nothing at name. *)
NoTree == [path \in Paths |-> "none"]

(* The entries of a directory, as paths and in the order they are listed. *)
ChildrenOf(tree, path) ==
    IF Len(path) = MaxDepth THEN <<>>
    ELSE SelectSeq([i \in 1..Len(EntryNames) |-> Append(path, EntryNames[i])],
                   LAMBDA child : tree[child] # "none")

(* ListDirectory(dirname, &entries): false when dirname does not exist; for *)
(* a file, true with no entry; for a directory ".", ".." and its entries.   *)
ListDirectory(tree, dirname) ==
    IF tree[dirname] = "none" THEN [ok |-> FALSE, entries |-> <<>>]
    ELSE IF tree[dirname] = "file" THEN [ok |-> TRUE, entries |-> <<>>]
    ELSE [ok |-> TRUE,
          entries |->
              <<[name |-> ".", path |-> dirname, is_dir |-> TRUE],
                [name |-> "..", path |-> dirname, is_dir |-> TRUE]>>
              \o [i \in 1..Len(ChildrenOf(tree, dirname)) |->
                    LET child == ChildrenOf(tree, dirname)[i]
                    IN  [name |-> child[Len(child)], path |-> child,
                         is_dir |-> tree[child] = "dir"]]]

(* unlink(path): removes a file, unless the removal is refused. *)
unlink(tree, refused, path) ==
    IF tree[path] = "file" /\ path \notin refused
    THEN [ok |-> TRUE, tree |-> [tree EXCEPT ![path] = "none"]]
    ELSE [ok |-> FALSE, tree |-> tree]

(* DeleteDirectory(dirname): rmdir removes an empty directory. *)
DeleteDirectory(tree, refused, dirname) ==
    IF /\ tree[dirname] = "dir"
       /\ ChildrenOf(tree, dirname) = <<>>
       /\ dirname \notin refused
    THEN [ok |-> TRUE, tree |-> [tree EXCEPT ![dirname] = "none"]]
    ELSE [ok |-> FALSE, tree |-> tree]

RECURSIVE RecursivelyDeleteResult(_, _, _)
RECURSIVE DeleteEntries(_, _, _)

(* The loop of RecursivelyDelete over the entries listed. *)
DeleteEntries(tree, refused, entries) ==
    IF entries = <<>> THEN [ok |-> TRUE, tree |-> tree]
    ELSE LET ent == Head(entries)
             step == IF ent.name \in {".", ".."} THEN [ok |-> TRUE, tree |-> tree]
                     ELSE IF ent.is_dir
                     THEN RecursivelyDeleteResult(tree, refused, ent.path)
                     ELSE unlink(tree, refused, ent.path)
         IN  IF ~step.ok THEN step
             ELSE DeleteEntries(step.tree, refused, Tail(entries))

(* RecursivelyDelete(name): its return value and the tree it leaves. *)
RecursivelyDeleteResult(tree, refused, name) ==
    LET listed == ListDirectory(tree, name)
    IN  IF ~listed.ok THEN [ok |-> FALSE, tree |-> tree]
        ELSE LET first == IF listed.entries = <<>>
                          THEN unlink(tree, refused, name)
                          ELSE [ok |-> TRUE, tree |-> tree]
             IN  IF ~first.ok THEN first
                 ELSE LET emptied == DeleteEntries(first.tree, refused, listed.entries)
                      IN  IF ~emptied.ok THEN emptied
                          ELSE DeleteDirectory(emptied.tree, refused, name)

(* A tree, and at most one path whose removal the system refuses. *)
InitDelete ==
    \E tree \in Trees :
        \E refused \in {{}} \cup {{path} : path \in {q \in Paths : tree[q] # "none"}} :
            del = [before |-> tree, refused |-> refused, called |-> FALSE,
                   ret |-> FALSE, tree |-> tree]

RecursivelyDelete ==
    /\ ~del.called
    /\ LET r == RecursivelyDeleteResult(del.tree, del.refused, <<>>)
       IN  del' = [del EXCEPT !.called = TRUE, !.ret = r.ok, !.tree = r.tree]
    /\ UNCHANGED notDeleteVars

NextDelete == RecursivelyDelete

-----------------------------------------------------------------------------
(* file_dir.cc: EnsureDirectory(dirname, mode) called by several processes *)
(* or threads at once.                                                     *)

NumEnsureCallers == 3
EnsureCallers == 1..NumEnsureCallers

(* dirname is nothing, a file or a directory; mkdir can create it or not;  *)
(* seen: the callers during whose call dirname was a directory; by: the    *)
(* statement a caller returned from.                                       *)
InitEnsure ==
    \E at \in {"none", "file", "dir"}, creatable \in BOOLEAN :
        ens = [at |-> at, creatable |-> creatable,
               pc |-> [p \in EnsureCallers |-> "idle"],
               ret |-> [p \in EnsureCallers |-> FALSE],
               by |-> [p \in EnsureCallers |-> "none"],
               seen |-> [p \in EnsureCallers |-> FALSE]]

(* File::IsDirectory(dirname) *)
IsDirectory(at) == at = "dir"

(* EnsureDirectory without its last test. *)
IsDirectoryAgain_No(at) == FALSE

(* "we need to check IsDirectory again": return File::IsDirectory(dirname) *)
IsDirectoryAgain(at) == IsDirectory(at)

(* the callers inside EnsureDirectory when pc is their position *)
InCall(pc) == {p \in EnsureCallers : pc[p] \notin {"idle", "done"}}

(* dirname being a directory is noted for the callers inside a call. *)
Seen(e, before) ==
    [e EXCEPT !.seen = [p \in EnsureCallers |->
                          @[p] \/ (e.at = "dir" /\ p \in InCall(before) \cup InCall(e.pc))]]

(* if (File::IsDirectory(dirname)) return true; *)
EnsureCheck(p) ==
    /\ ens.pc[p] = "idle"
    /\ ens' = Seen(IF IsDirectory(ens.at)
                   THEN [ens EXCEPT !.pc[p] = "done", !.ret[p] = TRUE,
                                    !.by[p] = "check"]
                   ELSE [ens EXCEPT !.pc[p] = "create"],
                   [ens.pc EXCEPT ![p] = "check"])
    /\ UNCHANGED notEnsureVars

(* if (File::CreateDir(dirname, mode)) return true; *)
EnsureCreate(p) ==
    /\ ens.pc[p] = "create"
    /\ ens' = Seen(IF ens.at = "none" /\ ens.creatable
                   THEN [ens EXCEPT !.at = "dir", !.pc[p] = "done", !.ret[p] = TRUE,
                                    !.by[p] = "create"]
                   ELSE [ens EXCEPT !.pc[p] = "again"],
                   ens.pc)
    /\ UNCHANGED notEnsureVars

(* return File::IsDirectory(dirname); *)
EnsureAgain(p) ==
    /\ ens.pc[p] = "again"
    /\ ens' = Seen([ens EXCEPT !.pc[p] = "done", !.by[p] = "again",
                                !.ret[p] = IsDirectoryAgain(ens.at)],
                   ens.pc)
    /\ UNCHANGED notEnsureVars

NextEnsure ==
    \/ \E p \in EnsureCallers : EnsureCheck(p)
    \/ \E p \in EnsureCallers : EnsureCreate(p)
    \/ \E p \in EnsureCallers : EnsureAgain(p)

-----------------------------------------------------------------------------
(* cpp_directive_parser.cc: CppDirectiveParser::Parse over the scalar      *)
(* loops of cpp_tokenizer.cc (those of a NO_SSE2 build).  A position is    *)
(* the number of bytes before stream->cur(): the byte at position p is     *)
(* content[p + 1].                                                         *)

MaxChunks == 4
Chunks == {"#else", "#endif", "#", "\n", "/", "*", " "}

RECURSIVE Concat(_)
Concat(cs) == IF cs = <<>> THEN "" ELSE Head(cs) \o Concat(Tail(cs))

(* the sources given to Parse *)
Contents == {Concat(cs) : cs \in SeqsUpTo(Chunks, MaxChunks)}

EOF == "EOF"

(* *(stream->begin() + p) *)
ByteAt(s, p) == CharAt(s, p + 1)

(* stream->PeekChar() *)
PeekChar(s, cur) == IF cur >= Len(s) THEN EOF ELSE ByteAt(s, cur)

IsCppBlank(c) == c \in {" ", "\t"}

(* absl::ascii_isalnum *)
IsAlnum(c) ==
    \E i \in 1..Len(UpperCase \o LowerCase \o "0123456789") :
        CharAt(UpperCase \o LowerCase \o "0123456789", i) = c

(* the loop of SkipComment: the '/' of "*/" counts only after begin *)
RECURSIVE SkipCommentFrom(_, _, _)
SkipCommentFrom(s, begin, cur) ==
    LET c == PeekChar(s, cur)
    IN  IF c = EOF THEN [ok |-> FALSE, cur |-> cur]
        ELSE IF c = "/" /\ cur # begin /\ ByteAt(s, cur - 1) = "*"
             THEN [ok |-> TRUE, cur |-> cur + 1]
             ELSE SkipCommentFrom(s, begin, cur + 1)

(* ok = FALSE: error_reason = "missing terminating '*/' for comment" *)
SkipComment(s, cur) == SkipCommentFrom(s, cur, cur)

RECURSIVE SkipUntilLineBreakIgnoreComment(_, _)
SkipUntilLineBreakIgnoreComment(s, cur) ==
    LET c == PeekChar(s, cur)
    IN  IF c = EOF THEN cur
        ELSE IF c = "\n"
             THEN LET last == cur - 1
                      back == IF ByteAt(s, last) = "\r" THEN last - 1 ELSE last
                  IN  IF ByteAt(s, back) # "\\" THEN cur + 1
                      ELSE SkipUntilLineBreakIgnoreComment(s, cur + 1)
             ELSE SkipUntilLineBreakIgnoreComment(s, cur + 1)

(* the first loop of IsAfterEndOfLine: -1 when only blanks precede cur *)
RECURSIVE BlanksBefore(_, _)
BlanksBefore(s, cur) ==
    IF cur = 0 THEN -1
    ELSE IF IsCppBlank(ByteAt(s, cur - 1)) THEN BlanksBefore(s, cur - 1)
         ELSE cur - 1

(* "Move backward until "/*" is found." *)
RECURSIVE CommentStartBefore(_, _)
CommentStartBefore(s, cur) ==
    IF cur - 1 < 0 THEN [found |-> FALSE, cur |-> cur]
    ELSE IF ByteAt(s, cur - 1) = "/" /\ ByteAt(s, cur) = "*"
         THEN [found |-> TRUE, cur |-> cur - 2]
         ELSE CommentStartBefore(s, cur - 1)

(* the second loop of IsAfterEndOfLine *)
RECURSIVE LineEndsAt(_, _)
LineEndsAt(s, cur) ==
    IF cur < 0 THEN TRUE
    ELSE LET c == ByteAt(s, cur)
         IN  IF c = "\n"
             THEN IF cur - 1 < 0 THEN TRUE
                  ELSE LET back == IF ByteAt(s, cur - 1) = "\r"
                                   THEN cur - 2 ELSE cur - 1
                       IN  IF back < 0 \/ ByteAt(s, back) # "\\" THEN TRUE
                           ELSE LineEndsAt(s, back - 1)
             ELSE IF c = "/"
             THEN IF cur - 1 < 0 \/ ByteAt(s, cur - 1) # "*" THEN FALSE
                  ELSE LET start == CommentStartBefore(s, cur - 2)
                       IN  IF start.found THEN LineEndsAt(s, start.cur)
                           ELSE FALSE
             ELSE IF IsCppBlank(c) THEN LineEndsAt(s, cur - 1)
             ELSE FALSE

IsAfterEndOfLine(s, cur) ==
    LET last == BlanksBefore(s, cur)
    IN  IF last < 0 THEN TRUE ELSE LineEndsAt(s, last)

(* the loop of SkipUntilDirective; found: it returned true, cur is after   *)
(* the '#'; error: SkipComment set *error_reason.  After a block comment   *)
(* the loop goes on to ConsumeChar with c still the '*' that opened it.    *)
RECURSIVE SkipUntilDirectiveFrom(_, _, _)
SkipUntilDirectiveFrom(s, begin, cur) ==
    LET c == PeekChar(s, cur)
    IN  IF c = EOF THEN [found |-> FALSE, error |-> FALSE, cur |-> cur]
        ELSE IF cur # begin /\ ByteAt(s, cur - 1) = "/" /\ c = "/"
        THEN SkipUntilDirectiveFrom(s, begin,
                 SkipUntilLineBreakIgnoreComment(s, cur + 1))
        ELSE IF cur # begin /\ ByteAt(s, cur - 1) = "/" /\ c = "*"
        THEN LET r == SkipComment(s, cur + 1)
             IN  IF ~r.ok THEN [found |-> FALSE, error |-> TRUE, cur |-> r.cur]
                 ELSE SkipUntilDirectiveFrom(s, begin, r.cur + 1)
        ELSE IF c = "#"
        THEN IF IsAfterEndOfLine(s, cur)
             THEN [found |-> TRUE, error |-> FALSE, cur |-> cur + 1]
             ELSE SkipUntilDirectiveFrom(s, begin, cur + 1)
        ELSE SkipUntilDirectiveFrom(s, begin, cur + 1)

SkipUntilDirective(s, cur) == SkipUntilDirectiveFrom(s, cur, cur)

(* stream.SkipWhiteSpaces() *)
RECURSIVE SkipWhiteSpaces(_, _)
SkipWhiteSpaces(s, cur) ==
    IF cur < Len(s) /\ IsCppBlank(ByteAt(s, cur)) THEN SkipWhiteSpaces(s, cur + 1)
    ELSE cur

(* the keywords of kDirectiveArray, one per case of ParseDirective *)
kDirectiveArray ==
    {"include", "import", "include_next", "define", "undef", "ifdef", "ifndef",
     "if", "else", "endif", "elif", "pragma"}

NoValue == "-1"

(* helper.Lookup: some keyword goes on with this byte *)
HelperLookup(word) ==
    \E k \in kDirectiveArray : Len(word) <= Len(k) /\ SubSeq(k, 1, Len(word)) = word

(* helper.GetValue() *)
GetValue(word) == IF word \in kDirectiveArray THEN word ELSE NoValue

(* the inner loop of Parse: the directive's name, byte by byte *)
RECURSIVE LookupFrom(_, _, _)
LookupFrom(s, cur, word) ==
    LET c == PeekChar(s, cur)
    IN  IF c = EOF THEN [value |-> GetValue(word), cur |-> cur]
        ELSE IF ~IsAlnum(c) /\ c # "_" THEN [value |-> GetValue(word), cur |-> cur]
        ELSE IF ~HelperLookup(word \o c) THEN [value |-> NoValue, cur |-> cur + 1]
        ELSE LookupFrom(s, cur + 1, word \o c)

(* ParseDirective for #else and #endif, the directives of Contents:        *)
(* ParseElse and ParseEndif read nothing more from the stream.             *)
ParseDirective(value, cur) == [directive |-> [kind |-> value], cur |-> cur]

(* p->set_position(directives.size() + 1); at: where its '#' stands *)
set_position(p, directives, at) ==
    [kind |-> p.kind, position |-> Len(directives) + 1, at |-> at]

(* the outer loop of Parse *)
RECURSIVE ParseFrom(_, _, _)
ParseFrom(s, cur, directives) ==
    LET r == SkipUntilDirective(s, cur)
    IN  IF ~r.found THEN [error |-> r.error, directives |-> directives]
        ELSE LET name == LookupFrom(s, SkipWhiteSpaces(s, r.cur), "")
             IN  IF name.value # NoValue
                 THEN LET p == ParseDirective(name.value, name.cur)
                      IN  ParseFrom(s, p.cur,
                              Append(directives,
                                     set_position(p.directive, directives, r.cur - 1)))
                 ELSE ParseFrom(s, name.cur, directives)

(* Parse that assigns *result whatever it returns. *)
ResultAfter_Always(error, result, directives) == directives

(* if (!error_reason.empty()) return false; *result = std::move(directives) *)
ResultAfter(error, result, directives) == IF error THEN result ELSE directives

(* A source, and the list the caller hands in as *result. *)
InitParse ==
    \E content \in Contents :
        \E before \in {<<>>, <<[kind |-> "include", position |-> 1, at |-> 0]>>} :
            dp = [content |-> content, before |-> before, called |-> FALSE,
                  ret |-> FALSE, result |-> before]

Parse ==
    /\ ~dp.called
    /\ LET r == ParseFrom(dp.content, 0, <<>>)
       IN  dp' = [dp EXCEPT !.called = TRUE, !.ret = ~r.error,
                            !.result = ResultAfter(r.error, dp.result, r.directives)]
    /\ UNCHANGED notParseVars

NextParse == Parse

-----------------------------------------------------------------------------
(* directive_filter.cc: DirectiveFilter::MakeFilteredContent, one pass     *)
(* after the other and one iteration of a pass's loop at a time.  A pass   *)
(* is a machine m: it reads bytes below m.end, either of the content       *)
(* (RemoveComments) or of the buffer it writes (the passes in place), and  *)
(* notes every position it reads and whether each write stayed behind the  *)
(* bytes consumed and inside the buffer.                                   *)

MaxContentLength == 4
FilterBytes == {"\"", "/", "*", "\\", "\n", "\r", "#", " "}
FilterContents == SeqsUpTo(FilterBytes, MaxContentLength)

(* what new char[content_length + 1] holds before it is written *)
Uninitialized == "?"

(* *p for a byte of the input; a byte at or beyond end is not input *)
Rd(m, p) ==
    IF p < 0 \/ p >= m.end THEN "beyond"
    ELSE IF m.inplace THEN m.buf[p + 1] ELSE m.in[p + 1]

Note(m, positions) == [m EXCEPT !.reads = @ \cup positions]

(* *dst++ = byte, src being where the reading stands *)
Put(m, byte) ==
    [m EXCEPT !.buf = IF m.dst < Len(m.buf) THEN [@ EXCEPT ![m.dst + 1] = byte]
                      ELSE @,
              !.dst = @ + 1,
              !.safe = @ /\ m.dst < Len(m.buf) /\ m.dst + 1 <= m.src]

(* *dst++ = *src++ *)
CopyByte(m) ==
    Put([Note(m, {m.src}) EXCEPT !.src = @ + 1], Rd(m, m.src))

RECURSIVE CopyBytes(_, _)
CopyBytes(m, n) == IF n = 0 THEN m ELSE CopyBytes(CopyByte(m), n - 1)

(* IsEscapedNewLine without its tests against end. *)
IsEscapedNewLine_Unguarded(m, pos) ==
    IF Rd(m, pos) # "\\" THEN [n |-> 0, reads |-> {pos}]
    ELSE IF Rd(m, pos + 1) = "\n" THEN [n |-> 2, reads |-> {pos, pos + 1}]
    ELSE IF Rd(m, pos + 1) = "\r" /\ Rd(m, pos + 2) = "\n"
         THEN [n |-> 3, reads |-> {pos, pos + 1, pos + 2}]
         ELSE [n |-> 0, reads |-> {pos, pos + 1}
                                  \cup IF Rd(m, pos + 1) = "\r" THEN {pos + 2} ELSE {}]

(* n: the bytes of the escaped newline at pos, 0 when there is none *)
IsEscapedNewLine(m, pos) ==
    IF Rd(m, pos) # "\\" THEN [n |-> 0, reads |-> {pos}]
    ELSE IF pos + 1 < m.end /\ Rd(m, pos + 1) = "\n"
         THEN [n |-> 2, reads |-> {pos, pos + 1}]
    ELSE IF pos + 2 < m.end /\ Rd(m, pos + 1) = "\r" /\ Rd(m, pos + 2) = "\n"
         THEN [n |-> 3, reads |-> {pos, pos + 1, pos + 2}]
         ELSE [n |-> 0,
               reads |-> {pos} \cup (IF pos + 1 < m.end THEN {pos + 1} ELSE {})
                               \cup (IF pos + 2 < m.end /\ Rd(m, pos + 1) = "\r"
                                     THEN {pos + 2} ELSE {})]

(* SkipSpaces(pos, end): where it returns, and what it read *)
RECURSIVE SkipSpaces(_, _, _)
SkipSpaces(m, pos, reads) ==
    IF pos = m.end THEN [pos |-> m.end, reads |-> reads]
    ELSE IF pos > m.end THEN [pos |-> pos, reads |-> reads \cup {pos}]
    ELSE IF Rd(m, pos) \in {" ", "\t"} THEN SkipSpaces(m, pos + 1, reads \cup {pos})
    ELSE LET newline_byte == IsEscapedNewLine(m, pos)
         IN  IF newline_byte.n > 0
             THEN SkipSpaces(m, pos + newline_byte.n, reads \cup newline_byte.reads)
             ELSE [pos |-> pos, reads |-> reads \cup newline_byte.reads]

(* NextLineHead(pos, end) *)
RECURSIVE NextLineHead(_, _, _)
NextLineHead(m, pos, reads) ==
    IF pos = m.end THEN [pos |-> m.end, reads |-> reads]
    ELSE IF pos > m.end THEN [pos |-> pos, reads |-> reads \cup {pos}]
    ELSE IF Rd(m, pos) = "\n" THEN [pos |-> pos + 1, reads |-> reads \cup {pos}]
    ELSE LET newline_byte == IsEscapedNewLine(m, pos)
         IN  NextLineHead(m,
                          IF newline_byte.n # 0 THEN pos + newline_byte.n ELSE pos + 1,
                          reads \cup newline_byte.reads)

(* the loop of CopyStringLiteral; m.src is pos *)
RECURSIVE CopyStringLiteralLoop(_)
CopyStringLiteralLoop(m) ==
    IF m.src = m.end THEN m
    ELSE IF m.src > m.end THEN Note(m, {m.src})
    ELSE IF Rd(m, m.src) \in {"\"", "\n"} THEN CopyByte(m)
    ELSE LET newline_byte == IsEscapedNewLine(m, m.src)
         IN  IF newline_byte.n > 0
             THEN CopyStringLiteralLoop(
                      CopyBytes(Note(m, newline_byte.reads), newline_byte.n))
             ELSE IF /\ Rd(m, m.src) = "\\" /\ m.src + 1 # m.end
                     /\ Rd(m, m.src + 1) = "\""
             THEN CopyStringLiteralLoop(
                      CopyBytes(Note(m, newline_byte.reads \cup {m.src + 1}), 2))
             ELSE CopyStringLiteralLoop(
                      CopyByte(Note(m, newline_byte.reads
                                       \cup IF Rd(m, m.src) = "\\" /\ m.src + 1 # m.end
                                            THEN {m.src + 1} ELSE {})))

(* CopyStringLiteral(src, end, dst), then src += num_copied, dst += too *)
CopyStringLiteral(m) == CopyStringLiteralLoop(CopyByte(m))

(* the search for the end of a block comment: while (pos + 2 <= end) *)
RECURSIVE EndComment(_, _, _)
EndComment(m, pos, reads) ==
    IF ~(pos + 2 <= m.end) THEN [found |-> FALSE, pos |-> pos, reads |-> reads]
    ELSE IF Rd(m, pos) = "*" /\ Rd(m, pos + 1) = "/"
         THEN [found |-> TRUE, pos |-> pos, reads |-> reads \cup {pos, pos + 1}]
         ELSE EndComment(m, pos + 1,
                         reads \cup {pos}
                               \cup IF Rd(m, pos) = "*" THEN {pos + 1} ELSE {})

(* while (src < end) *dst++ = *src++; *)
RECURSIVE CopyRest(_)
CopyRest(m) == IF m.src < m.end THEN CopyRest(CopyByte(m)) ELSE m

(* one iteration of the loop of RemoveComments *)
RemoveCommentsStep(m) ==
    IF Rd(m, m.src) = "\"" THEN CopyStringLiteral(Note(m, {m.src}))
    ELSE IF Rd(m, m.src) # "/" \/ m.src + 1 = m.end THEN CopyByte(m)
    ELSE IF Rd(m, m.src + 1) = "*"
    THEN LET end_comment == EndComment(m, m.src + 2, {m.src, m.src + 1})
         IN  IF ~end_comment.found THEN CopyRest(Note(m, end_comment.reads))
             ELSE Put([Note(m, end_comment.reads) EXCEPT !.src = end_comment.pos + 2],
                      " ")
    ELSE IF Rd(m, m.src + 1) = "/"
    THEN LET head == NextLineHead(m, m.src + 2, {m.src, m.src + 1})
         IN  Put([Note(m, head.reads) EXCEPT !.src = head.pos], "\n")
    ELSE CopyByte(Note(m, {m.src + 1}))

(* memmove(dst, src, n); dst += n; src += n *)
MemMove(m, n) ==
    [m EXCEPT !.buf = [k \in 1..Len(m.buf) |->
                          IF k - 1 \in m.dst..(m.dst + n - 1) /\ m.src + k - m.dst <= Len(m.buf)
                          THEN m.buf[m.src + k - m.dst] ELSE m.buf[k]],
              !.reads = @ \cup (m.src..(m.src + n - 1)),
              !.src = @ + n,
              !.dst = @ + n,
              !.safe = @ /\ m.dst + n <= Len(m.buf) /\ m.dst <= m.src]

(* one iteration of the loop of FilterOnlyDirectives *)
FilterOnlyDirectivesStep(m) ==
    LET spaces == SkipSpaces(m, m.src, {})
        at == [Note(m, spaces.reads) EXCEPT !.src = spaces.pos]
    IN  IF at.src # at.end /\ Rd(at, at.src) = "#"
        THEN LET sharp == CopyByte(at)
                 after == SkipSpaces(sharp, sharp.src, {})
                 next_line_head == NextLineHead(sharp, after.pos, {})
             IN  MemMove([Note(sharp, after.reads \cup next_line_head.reads)
                              EXCEPT !.src = after.pos],
                         next_line_head.pos - after.pos)
        ELSE LET head == NextLineHead(at, at.src, IF at.src # at.end THEN {at.src} ELSE {})
             IN  [Note(at, head.reads) EXCEPT !.src = head.pos]

(* one iteration of the loop of RemoveEscapedNewLine *)
RemoveEscapedNewLineStep(m) ==
    LET newline_bytes == IsEscapedNewLine(m, m.src)
    IN  IF newline_bytes.n = 0 THEN CopyByte(Note(m, newline_bytes.reads))
        ELSE [Note(m, newline_bytes.reads) EXCEPT !.src = @ + newline_bytes.n]

Passes == <<"RemoveComments", "FilterOnlyDirectives", "RemoveEscapedNewLine", "done">>

(* MakeFilteredContent has allocated the buffer and calls RemoveComments. *)
MakeFilteredContent(content) ==
    [content |-> content,
     in |-> content,
     buf |-> [k \in 1..(Len(content) + 1) |-> Uninitialized],
     inplace |-> FALSE, pass |-> 1,
     src |-> 0, dst |-> 0, end |-> Len(content),
     reads |-> {}, safe |-> TRUE, overread |-> FALSE]

InitFilter == \E content \in FilterContents : df = MakeFilteredContent(content)

(* The iteration is done: a read at or beyond end is remembered. *)
Stepped(m) ==
    [m EXCEPT !.overread = @ \/ \E p \in m.reads : p < 0 \/ p >= m.end,
              !.reads = {}]

(* A pass returns the bytes it wrote; the next one filters them in place. *)
Returned(m) ==
    [m EXCEPT !.pass = @ + 1, !.inplace = TRUE, !.end = m.dst, !.src = 0, !.dst = 0]

RemoveComments ==
    /\ Passes[df.pass] = "RemoveComments"
    /\ df' = IF df.src # df.end THEN Stepped(RemoveCommentsStep(df)) ELSE Returned(df)
    /\ UNCHANGED notFilterVars

FilterOnlyDirectives ==
    /\ Passes[df.pass] = "FilterOnlyDirectives"
    /\ df' = IF df.src # df.end THEN Stepped(FilterOnlyDirectivesStep(df))
             ELSE Returned(df)
    /\ UNCHANGED notFilterVars

(* After the last pass: Content::CreateFromBuffer(buffer.get(), length). *)
RemoveEscapedNewLine ==
    /\ Passes[df.pass] = "RemoveEscapedNewLine"
    /\ df' = IF df.src # df.end THEN Stepped(RemoveEscapedNewLineStep(df))
             ELSE Returned(df)
    /\ UNCHANGED notFilterVars

NextFilter == RemoveComments \/ FilterOnlyDirectives \/ RemoveEscapedNewLine


-----------------
(* Specifications.  Each component is checked with the others at rest. *)
TokenIdle == InitToken /\ source = "oauth2"
TaskIdle == InitTask /\ fallback_policy = "none" /\ task = NewTask(FALSE)
BlobIdle == InitBlob
CacheIdle == InitCache
IpcIdle == InitIpc /\ ipc.status.health_check_on_timeout
PathIdle ==
    InitPath /\ ~gre.vc /\ gre.gomacc_fileid /\ gre.pathext_env = ""
             /\ Len(gre.path_env) = 1 /\ gre.path_env[1].file = "none"
RefIdle == InitRef /\ ref.local = "none"
MemIdle == InitMem
ClassIdle == InitClass /\ cls.tc = 1
ElfIdle == InitElf /\ elf.input.content = PrintDynamicSection(<<>>)
PureIdle == ClassIdle /\ ElfIdle
WaitIdle == InitWait
DeleteIdle ==
    del = [before |-> NoTree, refused |-> {}, called |-> FALSE, ret |-> FALSE,
           tree |-> NoTree]
EnsureIdle == InitEnsure /\ ens.at = "none" /\ ens.creatable
DirIdle == DeleteIdle /\ EnsureIdle
ParseIdle == dp = [content |-> "", before |-> <<>>, called |-> FALSE, ret |-> FALSE,
                   result |-> <<>>]
FilterIdle == df = MakeFilteredContent(<<>>)
CppIdle == ParseIdle /\ FilterIdle
LaterIdle == PathIdle /\ RefIdle /\ MemIdle /\ PureIdle /\ WaitIdle /\ DirIdle /\ CppIdle

(* Initial states: the component under study in every state it can start   *)
(* in, the others as constructed.                                          *)
InitTokenSpec == InitToken /\ TaskIdle /\ BlobIdle /\ CacheIdle /\ IpcIdle /\ LaterIdle
InitTaskSpec == TokenIdle /\ InitTask /\ BlobIdle /\ CacheIdle /\ IpcIdle /\ LaterIdle
InitBlobSpec == TokenIdle /\ TaskIdle /\ InitBlob /\ CacheIdle /\ IpcIdle /\ LaterIdle
InitCacheSpec == TokenIdle /\ TaskIdle /\ BlobIdle /\ InitCache /\ IpcIdle /\ LaterIdle
InitIpcSpec == TokenIdle /\ TaskIdle /\ BlobIdle /\ CacheIdle /\ InitIpc /\ LaterIdle

Init ==
    /\ InitToken /\ InitTask /\ InitBlob /\ InitCache /\ InitIpc /\ InitPath
    /\ InitRef /\ InitMem /\ InitClass /\ InitElf /\ InitWait
    /\ InitDelete /\ InitEnsure /\ InitParse /\ InitFilter
Next ==
    \/ NextToken \/ NextTask \/ NextBlob \/ NextCache \/ NextIpc \/ NextPath
    \/ NextRef \/ NextMem \/ NextClass \/ NextElf
    \/ (\E t \in Threads : WaitCalled(t)) \/ WaitReturned
    \/ NextDelete \/ NextEnsure \/ NextParse \/ NextFilter
Spec == Init /\ [][Next]_vars
SpecToken == InitTokenSpec /\ [][NextToken]_vars
SpecTokenSeconds == InitTokenSpec /\ [][NextTokenSeconds]_vars
SpecTokenRefresh == InitTokenSpec /\ [][NextTokenRefresh]_vars
SpecTokenConfig == InitTokenSpec /\ [][NextTokenConfig]_vars
SpecTokenInTime == InitTokenSpec /\ [][NextTokenInTime]_vars
SpecTask == InitTaskSpec /\ [][NextTask]_vars
(* The owner thread runs the callbacks posted to it. *)
SpecTaskFair ==
    SpecTask /\ WF_vars(ProcessAborted) /\ WF_vars(FinishSubProcess)
SpecBlob == InitBlobSpec /\ [][NextBlob]_vars
SpecCache == InitCacheSpec /\ [][NextCache]_vars
SpecIpc == InitIpcSpec /\ [][NextIpc]_vars
InitPathSpec ==
    TokenIdle /\ TaskIdle /\ BlobIdle /\ CacheIdle /\ IpcIdle /\ InitPath
              /\ RefIdle /\ MemIdle /\ PureIdle /\ WaitIdle /\ DirIdle /\ CppIdle
InitRefSpec ==
    TokenIdle /\ TaskIdle /\ BlobIdle /\ CacheIdle /\ IpcIdle /\ PathIdle
              /\ InitRef /\ MemIdle /\ PureIdle /\ WaitIdle /\ DirIdle /\ CppIdle
InitMemSpec ==
    TokenIdle /\ TaskIdle /\ BlobIdle /\ CacheIdle /\ IpcIdle /\ PathIdle
              /\ RefIdle /\ InitMem /\ PureIdle /\ WaitIdle /\ DirIdle /\ CppIdle
InitClassSpec ==
    TokenIdle /\ TaskIdle /\ BlobIdle /\ CacheIdle /\ IpcIdle /\ PathIdle
              /\ RefIdle /\ MemIdle /\ InitClass /\ ElfIdle /\ WaitIdle /\ DirIdle /\ CppIdle
InitElfSpec ==
    TokenIdle /\ TaskIdle /\ BlobIdle /\ CacheIdle /\ IpcIdle /\ PathIdle
              /\ RefIdle /\ MemIdle /\ ClassIdle /\ InitElf /\ WaitIdle /\ DirIdle /\ CppIdle
SpecClass == InitClassSpec /\ [][NextClass]_vars
SpecElf == InitElfSpec /\ [][NextElf]_vars
InitDeleteSpec ==
    TokenIdle /\ TaskIdle /\ BlobIdle /\ CacheIdle /\ IpcIdle /\ PathIdle
              /\ RefIdle /\ MemIdle /\ PureIdle /\ WaitIdle /\ InitDelete
              /\ EnsureIdle /\ CppIdle
InitEnsureSpec ==
    TokenIdle /\ TaskIdle /\ BlobIdle /\ CacheIdle /\ IpcIdle /\ PathIdle
              /\ RefIdle /\ MemIdle /\ PureIdle /\ WaitIdle /\ DeleteIdle
              /\ InitEnsure /\ CppIdle
InitParseSpec ==
    TokenIdle /\ TaskIdle /\ BlobIdle /\ CacheIdle /\ IpcIdle /\ PathIdle
              /\ RefIdle /\ MemIdle /\ PureIdle /\ WaitIdle /\ DirIdle
              /\ InitParse /\ FilterIdle
InitFilterSpec ==
    TokenIdle /\ TaskIdle /\ BlobIdle /\ CacheIdle /\ IpcIdle /\ PathIdle
              /\ RefIdle /\ MemIdle /\ PureIdle /\ WaitIdle /\ DirIdle
              /\ ParseIdle /\ InitFilter
SpecParse == InitParseSpec /\ [][NextParse]_vars
SpecFilter == InitFilterSpec /\ [][NextFilter]_vars
SpecDelete == InitDeleteSpec /\ [][NextDelete]_vars
SpecEnsure == InitEnsureSpec /\ [][NextEnsure]_vars
SpecMem == InitMemSpec /\ [][NextMem]_vars
SpecRef == InitRefSpec /\ [][NextRef]_vars
SpecPath == InitPathSpec /\ [][NextPath]_vars

-----------------------------------------------------------------------------
(* Properties of the token refresher *)

(* C1: whenever GetAuthorization() returns a header (at time now), the     *)
(* token it carries stays valid at the issuer until at least now + 60 s.   *)
C1_TokenValidForMargin ==
    (MuFree /\ GetAuthorization # <<>>) =>
        token_not_after >= now + kOAuthExpireTimeMarginInSec

(* C2: at most one refresh HTTP request is in flight, so status_ and resp_ *)
(* are never shared by two refreshes.                                      *)
C2_OneRefreshInFlight == inflight <= 1

(* C2 witness: a retried request is in flight while two callers wait and   *)
(* the delayed RunRefreshNow of an earlier token is still registered.      *)
C2_Witness ==
    /\ inflight = 1
    /\ requests = 2
    /\ Len(pending_tasks_) = 2
    /\ state_ = "RUN"

-----------------------------------------------------------------------------
(* Properties of CompileTask *)

remote_committed == reply = "goma"
local_committed == reply = "local"
canceled == task.canceled_

C4_NoPartialOutput ==
    \A o \in Outputs :
        /\ final[o] \in {"absent", "goma", "local"}
        /\ final[o] = "goma" =>
               /\ task.finished_ /\ task.exit_status_ = 0
               /\ \A q \in Outputs : staging[q] \in {"none", "verified"}
               /\ reply # "local"
        /\ final[o] = "local" =>
               /\ task.local_run_ /\ task.subproc_exit_status_ = 0
               /\ reply = "local"

(* C4 witness: CommitOutput is half way, one output renamed, the other     *)
(* still in staging.                                                       *)
C4_Witness ==
    /\ committing
    /\ final[1] = "goma"
    /\ final[2] = "absent"
    /\ staging[2] = "verified"

(* How far along a state is: the remote stages in order, the side branches *)
(* next to the stage they leave from, the finished states last.            *)
Rank(s) ==
    CASE s = "INIT" -> 0
      [] s = "SETUP" -> 1
      [] s \in {"FILE_REQ", "LOCAL_OUTPUT", "LOCAL_RUN"} -> 2
      [] s = "CALL_EXEC" -> 3
      [] s = "FILE_RESP" -> 4
      [] OTHER -> 5

(* C5 as stated: state_ only moves forward, and never leaves FINISHED,     *)
(* LOCAL_FINISHED or LOCAL_OUTPUT.                                         *)
C5_MonotoneWithLocalOutputTerminal ==
    [][task'.state_ # task.state_ =>
          /\ Rank(task'.state_) > Rank(task.state_)
          /\ task.state_ \notin {"FINISHED", "LOCAL_FINISHED", "LOCAL_OUTPUT"}]_vars

(* C5 amended: state_ only moves forward, and never leaves FINISHED or     *)
(* LOCAL_FINISHED; LOCAL_OUTPUT is a running state that FINISHED follows.  *)
C5_Monotone ==
    [][task'.state_ # task.state_ =>
          /\ Rank(task'.state_) > Rank(task.state_)
          /\ task.state_ \notin {"FINISHED", "LOCAL_FINISHED"}]_vars

(* C5 witness: the remote run failed in FINISHED, the local fallback ran  *)
(* and answered the client, and state_ is still FINISHED.                  *)
C5_Witness ==
    /\ task.state_ = "FINISHED"
    /\ task.fail_fallback_
    /\ task.local_run_
    /\ reply = "local"
    /\ task_done

-----------------------------------------------------------------------------
(* Properties of BlobStage *)

(* The callers that upload hash h themselves. *)
Uploaders(h) ==
    {c \in Callers : caller[c].st \in {"uploading", "queued", "rpc"}
                        /\ caller[c].hash = h}

(* C9: for every hash, each transition into Uploading is followed by at    *)
(* most one upload RPC: one caller uploads, the others attach to it and    *)
(* issue none.                                                             *)
C9_OneUploadPerHash ==
    \A h \in Hashes :
        /\ upload_rpcs[h] <= rounds[h]
        /\ Cardinality(Uploaders(h)) <= 1
        /\ Uploaders(h) # {} => blob[h] = "Uploading"
        /\ (\E c \in Callers : caller[c].st = "attached" /\ caller[c].hash = h)
               => Uploaders(h) # {}

(* C9 witness: every caller asked for the same hash while its one upload   *)
(* RPC was in flight; all but the uploader are attached.                   *)
C9_Witness ==
    /\ blob["h1"] = "Uploading"
    /\ upload_rpcs["h1"] = 1
    /\ Cardinality({c \in Callers : caller[c].st = "attached"
                                      /\ caller[c].hash = "h1"}) = NumCallers - 1
    /\ \E c \in Callers : caller[c].st = "rpc" /\ caller[c].hash = "h1"

(* C10: an entry changes status only from Unknown to Uploading and from    *)
(* Uploading to Present or Failed, and a Present entry stays Present.      *)
C10_StatusChain ==
    [][\A h \in Hashes :
          blob'[h] # blob[h] =>
              <<blob[h], blob'[h]>> \in {<<"Unknown", "Uploading">>,
                                          <<"Uploading", "Present">>,
                                          <<"Uploading", "Failed">>}]_vars

-----------------------------------------------------------------------------
(* Properties of the token refresher, continued *)

(* The token is missing: GetAuthorization would have nothing to join. *)
TokenMissing == token_type_ = "" \/ access_token_ = ""

(* token_expires_at_ is the token's expiry less the 60 s margin: the clock  *)
(* has reached it when the token is within 60 s of its expiry.              *)
TokenNearExpiry == now >= token_expires_at_

(* A failure of a refresh was stamped within the last 60 s. *)
RecentNetworkFailure ==
    last_network_error_ > 0 /\ now < last_network_error_ + 60

(* C12 as stated: ShouldRefresh() is true exactly when the token is missing *)
(* or within 60 s of its expiry, and no refresh failed on the network in    *)
(* the last 60 s; nothing else makes it false.                              *)
C12_ShouldRefreshIff ==
    ShouldRefresh <=> ((TokenMissing \/ TokenNearExpiry) /\ ~RecentNetworkFailure)

(* C12 amended: ShouldRefresh() is true exactly when the configuration can  *)
(* refresh (CanRefresh(): a refresh token is set), the token is missing or  *)
(* within 60 s of its expiry, and no refresh failed on the network in the   *)
(* last 60 s.                                                               *)
C12_ShouldRefresh ==
    ShouldRefresh <=> (/\ can_refresh
                       /\ TokenMissing \/ TokenNearExpiry
                       /\ ~RecentNetworkFailure)

(* C12 witness: the refresh token was cleared by SetOAuth2Config, the token *)
(* is gone, no failure is stamped, and ShouldRefresh() is false.            *)
C12_Witness ==
    /\ ~can_refresh
    /\ TokenMissing
    /\ TokenNearExpiry
    /\ ~RecentNetworkFailure
    /\ ~ShouldRefresh
    /\ set_calls = 1

(* A refresh is under way: its closure is posted, its request is with the   *)
(* HTTP client, its Done is running, or its retry is scheduled.             *)
RefreshUnderWay ==
    \/ \E i \in 1..Len(rt_queue) : rt_queue[i] = "RunRefresh"
    \/ inflight > 0
    \/ rt_pc \in {"done_parse", "done_parse2"}
    \/ delayed_retry.pending

(* What RunAfterRefresh does with a closure it queues: a refresh is started *)
(* if and only if none is under way, and the closure runs when Done() has   *)
(* put state_ back to NOT_STARTED, no request being left.                   *)
QueuedBehindRefresh(c) ==
    /\ (cb_state[c] = "idle" /\ cb_state'[c] = "pending") =>
          /\ c \in {pending_tasks_'[i] : i \in 1..Len(pending_tasks_')}
          /\ state_' = "RUN"
          /\ (rt_queue' # rt_queue) <=> ~RefreshUnderWay
          /\ (rt_queue' # rt_queue) => rt_queue' = Append(rt_queue, "RunRefresh")
          /\ RefreshUnderWay'
    /\ (cb_state[c] = "pending" /\ cb_state'[c] # "pending") =>
          /\ cb_state'[c] = "ran"
          /\ state_' = "NOT_STARTED"
          /\ inflight' = 0
          /\ ~delayed_retry'.pending

(* C13 as stated: RunAfterRefresh posts the closure at once when the token  *)
(* is valid, and otherwise queues it; a queued closure starts a refresh if  *)
(* and only if none is under way and runs only when that refresh is done.   *)
C13_QueuedUnlessTokenValid ==
    [][\A c \in Callbacks :
          /\ (cb_state[c] = "idle" /\ cb_state'[c] # "idle") =>
                IF GetAuthorization # <<>>
                THEN cb_state'[c] = "ran" /\ rt_queue' = rt_queue
                ELSE cb_state'[c] = "pending"
          /\ QueuedBehindRefresh(c)]_vars

(* C13 amended: RunAfterRefresh posts the closure at once, starting no      *)
(* refresh, when the clock is before token_expires_at_, when Shutdown() has *)
(* been called, or when a refresh failed on the network in the last 60 s;   *)
(* otherwise it queues it; a queued closure starts a refresh if and only if *)
(* none is under way and runs only when that refresh is done.               *)
C13_RunAfterRefresh ==
    [][\A c \in Callbacks :
          /\ (cb_state[c] = "idle" /\ cb_state'[c] # "idle") =>
                IF now < token_expires_at_ \/ shutting_down_
                      \/ RecentNetworkFailure
                THEN /\ cb_state'[c] = "ran"
                     /\ rt_queue' = rt_queue
                     /\ state_' = state_
                     /\ requests' = requests
                ELSE cb_state'[c] = "pending"
          /\ QueuedBehindRefresh(c)]_vars

(* C13 witness: two closures wait behind one refresh whose request is with  *)
(* the HTTP client; the second one started nothing.                         *)
C13_Witness ==
    /\ \A c \in Callbacks : cb_state[c] = "pending"
    /\ Len(pending_tasks_) = MaxCallbacks
    /\ inflight = 1
    /\ requests = 1
    /\ rt_queue = <<>>

(* Done() gives up: the request failed on the network (no HTTP status, or   *)
(* 5xx) and the deadline of the refresh has passed.                         *)
GivesUp ==
    /\ rt_pc = "idle"
    /\ rt_pc' = "done_parse"
    /\ status_ \in {"err0", "err5xx"}

(* C14: a refresh that gives up after its deadline stamps the time in       *)
(* last_network_error_; while the clock is within 60 s of the stamp,        *)
(* ShouldRefresh() is false and RunAfterRefresh runs every closure at once  *)
(* and starts no refresh; from 60 s after the stamp on, RunAfterRefresh     *)
(* queues the closure of a caller without a valid token and a refresh       *)
(* starts; a refresh that brings a token sets the stamp back to 0.          *)
C14_Cooldown ==
    /\ [][GivesUp => (now >= refresh_deadline_ /\ last_network_error_' = now)]_vars
    /\ [](RecentNetworkFailure => ~ShouldRefresh)
    /\ [][\A c \in Callbacks :
            (RecentNetworkFailure /\ cb_state[c] = "idle" /\ cb_state'[c] # "idle")
               => /\ cb_state'[c] = "ran"
                  /\ state_' = state_
                  /\ rt_queue' = rt_queue
                  /\ requests' = requests
                  /\ inflight' = inflight]_vars
    /\ [][\A c \in Callbacks :
            (/\ last_network_error_ > 0
             /\ now >= last_network_error_ + 60
             /\ ~(now < token_expires_at_) /\ ~shutting_down_
             /\ cb_state[c] = "idle" /\ cb_state'[c] # "idle")
               => (cb_state'[c] = "pending" /\ RefreshUnderWay')]_vars
    /\ [][(/\ rt_pc \in {"done_parse", "done_parse2"}
           /\ rt_pc' \notin {"done_parse", "done_parse2"}
           /\ status_ = "ok200" /\ resp_.ok)
              => last_network_error_' = 0]_vars

(* C14 witness: a refresh gave up, closures were turned away during the     *)
(* 60 s, and now, the 60 s over and the stamp still set, a second refresh   *)
(* has its request with the HTTP client.                                    *)
C14_Witness ==
    /\ last_network_error_ > 0
    /\ now >= last_network_error_ + 60
    /\ requests = 2
    /\ inflight = 1
    /\ \E c \in Callbacks : cb_state[c] = "ran"
    /\ \E c \in Callbacks : cb_state[c] = "pending"

(* Done() stores a token it parsed. *)
StoresToken ==
    \/ /\ rt_pc = "done_parse" /\ rt_pc' \notin {"done_parse", "done_parse2"}
       /\ status_ = "ok200" /\ resp_.ok
    \/ /\ rt_pc = "done_parse2" /\ rt_pc' # "done_parse2"

(* The lifetime ParseResponseBody handed to it. *)
ExpiresIn == IF rt_pc = "done_parse2" THEN l_expires_in ELSE resp_.lifetime

C16_ShutdownCancels ==
    /\ [][(~shutting_down_ /\ shutting_down_') =>
            IF rt_queue' # rt_queue
            THEN rt_queue' = Append(rt_queue, "Cancel")
            ELSE /\ ~delayed_now'.pending /\ ~cancel_refresh_now_'
                 /\ ~delayed_retry'.pending /\ ~cancel_refresh_'
                 /\ crashed' = crashed]_vars
    /\ [][(rt_queue # <<>> /\ Head(rt_queue) = "Cancel" /\ rt_queue' = Tail(rt_queue))
             => /\ ~delayed_now'.pending /\ ~cancel_refresh_now_'
                /\ ~delayed_retry'.pending /\ ~cancel_refresh_']_vars
    /\ [][shutting_down_ => (requests' = requests /\ inflight' <= inflight
                             /\ shutting_down_')]_vars

-----------------------------------------------------------------------------
(* Properties of the CompilerInfo cache. *)

(* The callers running probe_fn for k. *)
Probers(k) == {g \in Getters : getter[g].st = "probing" /\ getter[g].key = k}

(* The callers waiting for the probe of k that is pending. *)
Waiters(k) == {g \in Getters : getter[g].st = "waiting" /\ getter[g].key = k}

-----------------------------------------------------------------------------
(* Properties of GomaIPC. *)

(* The turn of ReadResponse()'s loop in which CheckHealthz() is called. *)
ProbesHealthz == ipc.pc = "reading" /\ ipc'.probes = ipc.probes + 1

(* C17 as stated: CheckHealthz() is called only when the read timed out     *)
(* with no byte received and health_check_on_timeout set; when it returns   *)
(* OK the loop goes on reading with check_timeout; when it returns an error *)
(* ReadResponse() returns, so that Wait() ends with an error.               *)
C17_ExtendedOnlyIfHealthy ==
    [][ProbesHealthz =>
          /\ ipc.response = "none"
          /\ ipc.status.health_check_on_timeout
          /\ IF ipc'.healthz = "OK"
             THEN ipc'.pc = "reading" /\ ipc'.timeout = "check_timeout"
             ELSE ipc'.pc = "done" /\ Negative(ipc'.ret)]_vars

(* C18 as stated: one ReadResponse() calls CheckHealthz() at most once. *)
C18_ExtendedAtMostOnce == ipc.probes <= 1

(* C19: when Call()/Wait() has returned OK, the response had status 200 and *)
(* a body that is not empty and parses; when it has returned anything else, *)
(* status->err is not OK and status->error_message is not empty.            *)
C19_OnlySuccess ==
    ipc.pc = "done" =>
        /\ ipc.ret = "OK" =>
              /\ ipc.status.http_return_code = 200
              /\ ~EmptyMessage(ipc.body) /\ ipc.body = "message"
              /\ ipc.status.connect_success
        /\ ipc.ret # "OK" =>
              /\ Negative(ipc.status.err)
              /\ ipc.status.error_message # <<>>

(* C19 witness: the response was a 200 without body, and the call failed   *)
(* with "Empty message" and nothing else.                                   *)
C19_Witness ==
    /\ ipc.pc = "done"
    /\ ipc.ret = "FAIL"
    /\ ipc.status.http_return_code = 200
    /\ ipc.body = "empty"
    /\ ipc.status.error_message = <<"Empty message">>

-----------------------------------------------------------------------------
(* Properties of GetRealExecutablePath and IsGomacc. *)

(* The candidate is a file that can be run and identified. *)
Usable(c) == c.file \notin {"none", "invalid"}

(* The candidate is the wrapper: it is the running gomacc by its FileId, or *)
(* IsGomacc says so.                                                        *)
IsWrapper(c, vc) == c.file = "gomacc" \/ IsGomacc(c, vc)

(* The PATH directories that hold an executable which is not the wrapper. *)
RealDirs(g) ==
    {i \in 1..Len(g.path_env) :
        Usable(g.path_env[i]) /\ ~IsWrapper(g.path_env[i], g.vc)}

(* C21 as stated: with gomacc's FileId given, the PATH search returns true  *)
(* with the candidate of the first directory that holds an executable which *)
(* is not the wrapper, and false only when no directory holds one.          *)
C21_FirstNonWrapper ==
    (gre.pc = "done" /\ gre.gomacc_fileid) =>
        IF RealDirs(gre) = {}
        THEN ~gre.ret
        ELSE /\ gre.ret
             /\ gre.local_executable_path \in RealDirs(gre)
             /\ \A i \in RealDirs(gre) : gre.local_executable_path <= i

(* C22: where the PATH search calls IsGomacc for a candidate, the candidate *)
(* is skipped (IsGomacc returned true) if and only if cmd is not a cl.exe   *)
(* command and the run exited with status 1 with "GOMA" in its output; for  *)
(* a cl.exe command nothing is run, otherwise the candidate is run once,    *)
(* with no argument after argv[0].                                          *)
C22_IsGomacc ==
    [][(/\ gre.pc = "loop" /\ gre.pos <= Len(gre.path_env)
        /\ gre.gomacc_fileid
        /\ Usable(gre.path_env[gre.pos])
        /\ ~(gre.path_env[gre.pos].file = "gomacc"
                /\ gre.pos < Len(gre.path_env)))
       => LET c == gre.path_env[gre.pos]
          IN  /\ (gre'.pc = "loop") = (~gre.vc /\ c.status = 1 /\ c.goma)
              /\ gre.vc => gre'.probes = gre.probes
              /\ ~gre.vc =>
                    /\ Len(gre'.probes) = Len(gre.probes) + 1
                    /\ SubSeq(gre'.probes, 1, Len(gre.probes)) = gre.probes
                    /\ gre'.probes[Len(gre'.probes)].candidate = gre.pos
                    /\ gre'.probes[Len(gre'.probes)].argv = <<gre.pos>>]_vars

(* C22 witness: a copy of gomacc was run and skipped, and the compiler      *)
(* after it was run, exited with status 1 without "GOMA", and was chosen.   *)
C22_Witness ==
    /\ gre.pc = "done" /\ gre.ret
    /\ ~gre.vc /\ gre.gomacc_fileid
    /\ Len(gre.probes) = 2
    /\ gre.path_env[gre.probes[1].candidate].goma
    /\ gre.path_env[gre.local_executable_path].status = 1
    /\ ~gre.path_env[gre.local_executable_path].goma

(* C23 as stated: every run of a candidate has the variable                 *)
(* GOMA_WILL_FAIL_WITH_UNKNOWN_FLAG=true in its environment, with PATH and, *)
(* when pathext is not empty, PATHEXT.                                      *)
C23_ProbeEnvironment ==
    \A n \in 1..Len(gre.probes) :
        LET env == gre.probes[n].env
        IN  /\ env.flag = "GOMA_WILL_FAIL_WITH_UNKNOWN_FLAG"
            /\ env.value = "true"
            /\ env.names = {env.flag, "PATH"}
                   \cup (IF gre.pathext_env # "" THEN {"PATHEXT"} ELSE {})

-----------------------------------------------------------------------------
(* Properties of CompileTask's reference count. *)

-----------------------------------------------------------------------------
(* Properties of the token members. *)

(* C25 as stated: no token is looked up successfully more than once, and a  *)
(* GetAccount() that answers from account_email_ returns the account that   *)
(* was looked up with the token that is current at that call.               *)
C25_AccountMemoised ==
    /\ \A n \in 1..MaxTokens : mem.lookups[n] <= 1
    /\ \A a \in AccountCallers :
          (mem.acct[a].pc = "returned" /\ mem.acct[a].from_memo) =>
              mem.acct[a].ret = mem.acct[a].access_token

(* What a thread that takes mu_ reads is one token: nothing, or a type, a   *)
(* value and the not-after that came with them.                             *)
OneToken(m) ==
    \/ m.token_type_ = "" /\ m.access_token_ = 0 /\ m.token_expires_at_ = 0
    \/ m.token_type_ = "Bearer" /\ m.access_token_ # 0
          /\ m.token_expires_at_ = m.access_token_

(* C26 as stated: whenever mu_ can be taken, token_type_, access_token_ and *)
(* token_expires_at_ are those of one token, or all three are cleared.      *)
C26_ReplacedAtomically == mem.mu_ = "free" => OneToken(mem)

-----------------------------------------------------------------------------
(* Properties of the token refresher: the refresh episode. *)

(* C30 as stated: DCHECK(shutting_down_ || !access_token_.empty()) holds    *)
(* wherever RunAfterRefresh can reach it: when mu_ can be taken, now is     *)
(* before token_expires_at_ and Shutdown() was not called, access_token_ is *)
(* not empty.                                                               *)
C30_FastPathAssertion ==
    (MuFree /\ now < token_expires_at_ /\ ~shutting_down_) => access_token_ # ""

(* The steps of the refresh thread, the HTTP client and the clock: each is  *)
(* taken once it stays possible (the worker thread runs its closures, the   *)
(* HTTP client always calls back, time passes).                             *)
FairEpisode ==
    /\ WF_vars(Tick)
    /\ WF_vars(RunRefreshPosted)
    /\ WF_vars(RunRefreshRetry)
    /\ WF_vars(RunRefreshNow)
    /\ WF_vars(Cancel)
    /\ WF_vars(HttpComplete)
    /\ WF_vars(DoneBegin)
    /\ WF_vars(DoneParse)
    /\ WF_vars(DoneParse2)
    /\ WF_vars(DoneSchedule)

(* The refresh path and Shutdown() with the refresh thread, the HTTP client *)
(* and the clock making progress.                                           *)
SpecTokenEpisode == InitTokenSpec /\ [][NextTokenRefresh]_vars /\ FairEpisode

(* Shutdown() and Wait() with the refresh thread, the HTTP client and the  *)
(* clock making progress, and Wait() returning once it may.                *)
SpecTokenWait ==
    InitTokenSpec /\ [][NextTokenWait]_vars /\ FairEpisode /\ WF_vars(WaitReturned)

(* The episode is over: Done() set state_ back and took pending_tasks_. *)
EpisodeOver == state_ = "NOT_STARTED" /\ pending_tasks_ = <<>>

(* C29 as stated: a refresh episode always ends: from state_ = RUN the      *)
(* refresher comes back to NOT_STARTED with every queued callback released  *)
(* (the process dying on a CHECK and the request budget of the model being  *)
(* used up also count as an end).                                           *)
C29_EpisodeEnds ==
    (state_ = "RUN") ~> (EpisodeOver \/ crashed \/ requests = MaxRequests)

-----------------------------------------------------------------------------
(* Properties of the command classification and of the ELF listing parser *)

(* C27: the classification of a command depends only on its base name: the *)
(* predicates say of every command of the test what the test expects (the   *)
(* GCC, clang, cl, clang-cl, javac and clang-tidy names are recognised, the *)
(* look-alikes satisfy no predicate), commands with the same base name are  *)
(* classified alike, every clang command is a GCC command, and no command   *)
(* is otherwise in two families.                                            *)
C27_Classification ==
    cls.classified =>
        /\ cls.families = testcases[cls.tc].expected
        /\ \A other \in 1..Len(testcases) :
               Basename(testcases[other].command) = Basename(cls.command)
                   => testcases[other].expected = cls.families
        /\ ("kClang" \in cls.families => "kGCC" \in cls.families)
        /\ Cardinality(cls.families \ {"kClang"}) <= 1

C27_Witness ==
    /\ cls.classified
    /\ cls.command = "/usr/bin/local/clang-tidy/clang"
    /\ cls.families = {"kGCC", "kClang"}

(* C28: ParseReadElf, given the listing of a dynamic section, returns true, *)
(* libs holds the bracketed names of the (NEEDED) entries and rpaths the    *)
(* bracketed values of the (RPATH) entries, in order of appearance and      *)
(* without the brackets; every other line is ignored.                       *)
C28_ParseReadElf ==
    elf.called =>
        /\ elf.ret
        /\ elf.libs = elf.input.libs
        /\ elf.rpaths = elf.input.rpaths

C28_Witness ==
    /\ elf.called
    /\ elf.input.content = kExampleOutput
    /\ elf.libs = expected_libs
    /\ elf.rpaths = expected_rpaths

-----------------------------------------------------------------------------
(* Properties of the token refresher: Shutdown(), Wait() and the callbacks *)

(* A Shutdown() step that cancels by itself: it sets shutting_down_ with a  *)
(* handle registered and posts no Cancel closure, so it ran on the refresh  *)
(* thread.                                                                  *)
ShutdownCancelsItself ==
    /\ ~shutting_down_ /\ shutting_down_'
    /\ cancel_refresh_now_ \/ cancel_refresh_
    /\ rt_queue' = rt_queue

(* C31 as stated: Cancel() is invoked only on a handle that is non-null and *)
(* pending, and a cancelled handle is cleared: Shutdown() on the refresh    *)
(* thread with a retry pending cancels the retry and clears                 *)
(* cancel_refresh_, and no null handle is called (the process goes on).     *)
C31_CancelOnPendingHandle ==
    [][ShutdownCancelsItself =>
          /\ ~cancel_refresh_now_' /\ ~delayed_now'.pending
          /\ ~cancel_refresh_' /\ ~delayed_retry'.pending
          /\ crashed' = crashed]_vars

(* C32 as stated: after Shutdown(), Wait() eventually returns, whichever    *)
(* thread calls it and whatever was pending, and when it has returned       *)
(* neither handle is registered (a process that died on a CHECK counts as   *)
(* over).                                                                   *)
C32_WaitReturns ==
    (wait.st = "waiting") ~> (wait.st = "returned" \/ crashed)

(* C33 as stated: every callback passed to RunAfterRefresh is eventually    *)
(* run: a callback queued in pending_tasks_ is run later, whatever          *)
(* Shutdown() does meanwhile (the process dying on a CHECK and the request  *)
(* budget of the model being used up also count as an end).                 *)
C33_CallbackRuns ==
    \A c \in Callbacks :
        (cb_state[c] = "pending")
            ~> (cb_state[c] = "ran" \/ crashed \/ requests = MaxRequests)

(* A token was installed and the refresher is in use. *)
TokenInstalled == token_not_after > 0 /\ ~shutting_down_ /\ ~crashed /\ MuFree

-----------------------------------------------------------------------------
(* Properties of GetRealExecutablePath: what is returned and reported *)

(* C35 as stated: with gomacc's FileId given, GetRealExecutablePath never   *)
(* returns a path whose FileId is gomacc's, wherever in PATH gomacc's       *)
(* directory is and whatever the command is called.                         *)
C35_NeverTheWrapper ==
    (gre.pc = "done" /\ gre.ret /\ gre.gomacc_fileid)
        => gre.path_env[gre.local_executable_path].file # "gomacc"

(* C36: on a successful PATH search no_goma_path_env is the suffix of       *)
(* path_env that starts after the last directory skipped as the wrapper's,  *)
(* it still holds the directory of the returned executable, and it is       *)
(* path_env when no directory was skipped.                                  *)
C36_NoGomaPathEnv ==
    (gre.pc = "done" /\ gre.ret) =>
        /\ gre.no_goma_path_env \in 1..gre.local_executable_path
        /\ gre.skipped = {} => gre.no_goma_path_env = 1
        /\ \A i \in gre.skipped :
               /\ i < gre.no_goma_path_env
               /\ (\A j \in gre.skipped : j <= i) => gre.no_goma_path_env = i + 1

C36_Witness ==
    /\ gre.pc = "done" /\ gre.ret
    /\ gre.skipped = {1, 2}
    /\ gre.no_goma_path_env = 3
    /\ gre.local_executable_path = 3

-----------------------------------------------------------------------------
(* Properties of file_dir.cc *)

(* C37 as stated: RecursivelyDelete(name) returns true if and only if       *)
(* nothing is left at name when it returns; it returns false only if name   *)
(* did not exist or the removal of some entry was refused: a regular file,  *)
(* an empty directory and a nested tree are removed with true returned.     *)
C37_TrueIffRemoved ==
    del.called =>
        /\ del.before[<<>>] # "none" => (del.ret <=> del.tree[<<>>] = "none")
        /\ ~del.ret => (del.before[<<>>] = "none" \/ del.refused # {})

(* C38: EnsureDirectory(dirname) called by several at once for a directory  *)
(* that does not exist and can be created: every call returns true,         *)
(* however the tests and the create attempts interleave; and a call that    *)
(* returns true had dirname as a directory at some point while it ran.      *)
C38_EveryCallerSucceeds ==
    \A p \in EnsureCallers :
        ens.pc[p] = "done" =>
            /\ (ens.creatable /\ ens.at # "file") => ens.ret[p]
            /\ ens.ret[p] => ens.seen[p]

(* C38 witness: after two callers found no directory, one created it, the *)
(* other failed to create it and found it at the last test.               *)
C38_Witness ==
    /\ \A p \in EnsureCallers : ens.pc[p] = "done" /\ ens.ret[p] /\ ens.seen[p]
    /\ \E p, q \in EnsureCallers : ens.by[p] = "create" /\ ens.by[q] = "again"

-----------------------------------------------------------------------------
(* Properties of the directive parser and the directive filter *)

(* C39: CppDirectiveParser::Parse leaves *result as it was whenever it      *)
(* returns false (an error while skipping to the next directive, such as a  *)
(* block comment that is not terminated); a parse that returns true         *)
(* replaces *result with the directives found, in the order of the source,  *)
(* carrying the positions 1..n.                                             *)
C39_ResultOnlyOnSuccess ==
    dp.called =>
        /\ ~dp.ret => dp.result = dp.before
        /\ dp.ret =>
            /\ \A i \in 1..Len(dp.result) :
                   /\ dp.result[i].position = i
                   /\ dp.result[i].kind \in kDirectiveArray
                   /\ SubSeq(dp.content, dp.result[i].at + 1,
                             dp.result[i].at + 1 + Len(dp.result[i].kind))
                          = "#" \o dp.result[i].kind
            /\ \A i, j \in 1..Len(dp.result) :
                   i < j => dp.result[i].at < dp.result[j].at

(* C39 witness: a source with a directive and then a comment that never   *)
(* ends was given with a list that was not empty; Parse returned false    *)
(* and the list is as it was.                                             *)
C39_Witness ==
    /\ dp.called /\ ~dp.ret
    /\ Len(dp.content) > 5 /\ SubSeq(dp.content, 1, 5) = "#else"
    /\ dp.before # <<>> /\ dp.result = dp.before

(* C40: in each pass of DirectiveFilter (RemoveComments,                    *)
(* FilterOnlyDirectives, RemoveEscapedNewLine), at every step the bytes     *)
(* written are at most the bytes consumed and no byte at or beyond end is   *)
(* read; no write goes past the buffer of content_length + 1 bytes; for     *)
(* every input, string literals and comments that do not end and a last     *)
(* backslash or slash included.                                             *)
C40_FilterInBounds ==
    /\ df.safe
    /\ ~df.overread
    /\ df.dst <= df.src /\ df.src <= df.end
    /\ df.dst <= Len(df.buf) /\ df.end <= Len(df.content)

(* C40 witness: the three passes are over for a content that opens a      *)
(* string literal and ends with a backslash, and something was written.   *)
C40_Witness ==
    /\ Passes[df.pass] = "done"
    /\ Len(df.content) >= 2
    /\ df.content[1] = "\"" /\ df.content[Len(df.content)] = "\\"
    /\ df.end > 0

====
